---- MODULE Spec2Model ----
(***************************************************************************)
(* term-dash: the live-state core of src/src/main.rs.                      *)
(*                                                                         *)
(* The model follows main(): terminal set-up, the event loop (draw, poll   *)
(* and key dispatch, tick check, quit check) and the teardown, with the    *)
(* App struct as the state.  The metrics provider (sysinfo) is the         *)
(* environment: every refresh picks a snapshot from a small set.  The      *)
(* time since the last tick is counted in milliseconds; a frame and the    *)
(* wait for an event take one of a few durations.                          *)
(*                                                                         *)
(* Representation                                                          *)
(*   Option<T>     <<>> for None, <<x>> for Some(x)                        *)
(*   String        a sequence of one-character strings                     *)
(*   f32 cpu usage an integer number of tenths of a percent                *)
(*   HashMap       a sequence in the map's (arbitrary) iteration order     *)
(***************************************************************************)
EXTENDS Integers, Sequences, FiniteSets, TLC

VARIABLES
    pc,              \* position of main(): start, alt, term, draw, poll, tick,
                     \* quit, teardown, leave_alt, show_cursor, done
    result,          \* <<"running">>, then main's Result: <<"Ok">> or <<"Err", call>>
    raw_mode,        \* the terminal is in raw mode
    alt_screen,      \* the terminal shows the alternate screen
    system,          \* App.system / App.networks: the snapshot of the last refresh
    cpu_history,     \* App.cpu_history
    mem_history,     \* App.mem_history
    net_rx_history,  \* App.net_rx_history
    net_tx_history,  \* App.net_tx_history
    should_quit,     \* App.should_quit
    process_state,   \* App.process_state.selected(): Option<usize>
    processes,       \* App.processes: Vec<(Pid, String, f32, u64)>
    input_mode,      \* App.input_mode
    search_query,    \* App.search_query
    selected_pid,    \* App.selected_pid: Option<Pid>
    current_theme,   \* App.current_theme
    kill_request,    \* Option<Pid>: the pid process.kill() was called on by the
                     \* last key event
    popup,           \* the last frame drew the process details popup
    ticks,           \* number of on_tick calls so far (bounds the model)
    elapsed,         \* last_tick.elapsed() in milliseconds
    event            \* what the poll of this iteration gave, until its tick check:
                     \* "timeout", "ignored" (no key press), "press"; else "none"

app_vars == <<system, cpu_history, mem_history, net_rx_history, net_tx_history,
              should_quit, process_state, processes, input_mode, search_query,
              selected_pid, current_theme>>
term_vars == <<result, raw_mode, alt_screen>>
vars == <<pc, result, raw_mode, alt_screen, system, cpu_history, mem_history,
          net_rx_history, net_tx_history, should_quit, process_state, processes,
          input_mode, search_query, selected_pid, current_theme, kill_request,
          popup, ticks, elapsed, event>>

----------------------------------------------------------------------------
(* Program constants *)

TICK_RATE == 1000
HISTORY_LEN == 100
TOP_K == 50

(* Bounds of the model *)

MaxTicks == 3       \* on_tick calls in one run
MaxElapsed == 2000  \* elapsed times beyond this are counted as this
MaxQueryLen == 1    \* characters typed into the search query
MaxViewQueryLen == 2  \* characters of a query of SpecView
BigTable == 51      \* processes in the large process table of SpecView

----------------------------------------------------------------------------
(* Option, min, repeat *)

None == <<>>
Some(x) == <<x>>
IsSome(o) == o # <<>>
Unwrap(o) == o[1]

Min(a, b) == IF a <= b THEN a ELSE b

Zeroes(n) == [i \in 1..n |-> 0]

----------------------------------------------------------------------------
(* The metrics provider: process tables and snapshots *)

Proc(pid, name, cpu, mem) == [pid |-> pid, name |-> name, cpu |-> cpu, mem |-> mem]

Net(rx, tx) == [received |-> rx, transmitted |-> tx]

\* One refresh of System + Networks.  cpu: global_cpu_info().cpu_usage() in
\* tenths of a percent; procs: system.processes().values() in iteration order.
Snapshot(cpu, total, used, nets, procs) ==
    [cpu |-> cpu, total_memory |-> total, used_memory |-> used,
     networks |-> nets, procs |-> procs]

SnapA == Snapshot(105, 8, 2, <<Net(10, 20)>>,
                  <<Proc(1, <<"a">>, 50, 1), Proc(2, <<"b">>, 500, 2),
                    Proc(3, <<"a", "b">>, 100, 3)>>)

\* pid 2 has exited, pid 4 is new and ties with pid 3, pid 5 has a capital for
\* a name and the name of pid 6 ends with a capital sigma; another iteration
\* order.
SnapB == Snapshot(0, 0, 0, <<Net(1, 2), Net(3, 4)>>,
                  <<Proc(4, <<"A", "b">>, 100, 4), Proc(3, <<"a", "b">>, 100, 3),
                    Proc(5, <<"Q">>, 30, 5), Proc(1, <<"a">>, 50, 1),
                    Proc(6, <<"Ό", "Σ">>, 20, 6)>>)

\* only pid 2 is left; 29 of 100 units of memory are in use
SnapC == Snapshot(209, 100, 29, <<>>, <<Proc(2, <<"b">>, 70, 2)>>)

\* the snapshots of the event loop; ViewSnapshots adds the others
Snapshots == {SnapA, SnapC}

\* A process table larger than the cap of the unfiltered view, with ties.
BigName(i) == IF i % 3 = 0 THEN <<"a", "b">>
              ELSE IF i % 3 = 1 THEN <<"B", "A">> ELSE <<"b">>

BigProc(i) == Proc(i, BigName(i), ((i * 7) % 11) * 10, i)

BigAsc == Snapshot(999, 8, 8, <<Net(5, 6)>>, [i \in 1..BigTable |-> BigProc(i)])

BigDesc == Snapshot(1000, 8, 1, <<Net(7, 8)>>,
                    [i \in 1..BigTable |-> BigProc(BigTable + 1 - i)])

ViewSnapshots == {SnapA, SnapB, SnapC, BigAsc, BigDesc}

\* system.process(pid): Option<&Process>
SystemHasProcess(sys, pid) == \E i \in 1..Len(sys.procs) : sys.procs[i].pid = pid

----------------------------------------------------------------------------
(* Keyboard input *)

\* KeyCode::Char(c) for the characters bound in Normal mode and a plain letter
HotChars == {"q", "j", "k", "x", "/", "t"}
KeyChars == HotChars \cup {"a", "B"}

\* characters the user types while editing the search query
EditChars == {"a", "q", "x"}

\* characters of the queries of SpecView
ViewChars == {"a", "B", "q", "Σ"}

Char(c) == [code |-> "Char", ch |-> c]
Key(code) == [code |-> code, ch |-> ""]

Esc == Key("Esc")
Enter == Key("Enter")
Backspace == Key("Backspace")
Down == Key("Down")
Up == Key("Up")
Delete == Key("Delete")
Tab == Key("Tab")

KeyCodes == {Char(c) : c \in KeyChars}
              \cup {Esc, Enter, Backspace, Down, Up, Delete, Tab}

RECURSIVE Strings(_, _)
\* the strings over `chars` of length at most n
Strings(chars, n) ==
    IF n = 0 THEN {<<>>}
    ELSE LET shorter == Strings(chars, n - 1)
         IN  shorter \cup {Append(s, c) : s \in shorter, c \in chars}

----------------------------------------------------------------------------
(* on_tick: samples *)

\* `cpu_usage() as u64`: an f32 -> u64 cast truncates toward zero
CpuUsageAsU64(tenths) == tenths \div 10

\* The whole percentages k for which the f64 product (k / 100) * 100.0 is
\* rounded to a value just below k, so that the cast gives k - 1: those up to
\* three times the total.
F64RoundsBelow == {29, 57, 58, 113, 114, 115, 116, 201, 203,
                   205, 207, 226, 228, 230, 232, 251, 253, 255}

\* (used_mem as f64 / total_mem as f64 * 100.0) as u64, guarded by total_mem > 0.
\* The cast truncates. The f64 result differs from the exact percentage
\* by far less than 1 / total, so the cast gives the integer quotient unless the
\* percentage is a whole number that the f64 product falls short of (29, 57 and
\* 58 among those up to 100). For used <= 3 * total.
MemPercent(used, total) ==
    IF total > 0
    THEN LET k == (used * 100) \div total
         IN  IF (used * 100) % total = 0 /\ k \in F64RoundsBelow THEN k - 1 ELSE k
    ELSE 0

RECURSIVE TotalRx(_)
TotalRx(nets) == IF nets = <<>> THEN 0 ELSE Head(nets).received + TotalRx(Tail(nets))

RECURSIVE TotalTx(_)
TotalTx(nets) ==
    IF nets = <<>> THEN 0 ELSE Head(nets).transmitted + TotalTx(Tail(nets))

\* PushHistory at the wrong ends: pop_back() then push_front(v)
PushHistoryFront(h, v) == IF h = <<>> THEN <<v>> ELSE <<v>> \o SubSeq(h, 1, Len(h) - 1)

\* PushHistory without the pop_front
PushHistoryNoPop(h, v) == Append(h, v)

\* pop_front() then push_back(v); pop_front on an empty deque returns None
PushHistory(h, v) == IF h = <<>> THEN <<v>> ELSE Append(Tail(h), v)

----------------------------------------------------------------------------
(* on_tick: the process cache *)

\* The tables of core::unicode behind char::to_lowercase and str::to_lowercase
\* (Unicode 17), for the characters that can be written in a string of this
\* module: Basic Latin but for the grave accent, Latin-1, and the characters of
\* the second half of every 256-character row of the Basic Multilingual Plane.
\* 94 capitals among them (the Georgian and some Cherokee capitals, and a few of
\* Latin Extended-B and -D, Greek and Greek Extended) have a lower-case form
\* that cannot be written: that character is written by its code point, as in
\* "U+2D00" for the lower-case form of U+10A0.  A string of the model holds
\* only these characters.

\* the capitals and, at the same index, their lower-case forms
UpperCase ==
    <<"A", "B", "C", "D", "E", "F", "G", "H", "I", "J", "K", "L", "M", "N",
      "O", "P", "Q", "R", "S", "T", "U", "V", "W", "X", "Y", "Z", "À", "Á",
      "Â", "Ã", "Ä", "Å", "Æ", "Ç", "È", "É", "Ê", "Ë", "Ì", "Í", "Î", "Ï",
      "Ð", "Ñ", "Ò", "Ó", "Ô", "Õ", "Ö", "Ø", "Ù", "Ú", "Û", "Ü", "Ý", "Þ",
      "Ɓ", "Ƃ", "Ƅ", "Ɔ", "Ƈ", "Ɖ", "Ɗ", "Ƌ", "Ǝ", "Ə", "Ɛ", "Ƒ", "Ɠ", "Ɣ",
      "Ɩ", "Ɨ", "Ƙ", "Ɯ", "Ɲ", "Ɵ", "Ơ", "Ƣ", "Ƥ", "Ʀ", "Ƨ", "Ʃ", "Ƭ", "Ʈ",
      "Ư", "Ʊ", "Ʋ", "Ƴ", "Ƶ", "Ʒ", "Ƹ", "Ƽ", "Ǆ", "ǅ", "Ǉ", "ǈ", "Ǌ", "ǋ",
      "Ǎ", "Ǐ", "Ǒ", "Ǔ", "Ǖ", "Ǘ", "Ǚ", "Ǜ", "Ǟ", "Ǡ", "Ǣ", "Ǥ", "Ǧ", "Ǩ",
      "Ǫ", "Ǭ", "Ǯ", "Ǳ", "ǲ", "Ǵ", "Ƕ", "Ƿ", "Ǹ", "Ǻ", "Ǽ", "Ǿ", "Ά", "Έ",
      "Ή", "Ί", "Ό", "Ύ", "Ώ", "Α", "Β", "Γ", "Δ", "Ε", "Ζ", "Η", "Θ", "Ι",
      "Κ", "Λ", "Μ", "Ν", "Ξ", "Ο", "Π", "Ρ", "Σ", "Τ", "Υ", "Φ", "Χ", "Ψ",
      "Ω", "Ϊ", "Ϋ", "Ϗ", "Ϙ", "Ϛ", "Ϝ", "Ϟ", "Ϡ", "Ϣ", "Ϥ", "Ϧ", "Ϩ", "Ϫ",
      "Ϭ", "Ϯ", "ϴ", "Ϸ", "Ϲ", "Ϻ", "Ͻ", "Ͼ", "Ͽ", "Ҁ", "Ҋ", "Ҍ", "Ҏ", "Ґ",
      "Ғ", "Ҕ", "Җ", "Ҙ", "Қ", "Ҝ", "Ҟ", "Ҡ", "Ң", "Ҥ", "Ҧ", "Ҩ", "Ҫ", "Ҭ",
      "Ү", "Ұ", "Ҳ", "Ҵ", "Ҷ", "Ҹ", "Һ", "Ҽ", "Ҿ", "Ӏ", "Ӂ", "Ӄ", "Ӆ", "Ӈ",
      "Ӊ", "Ӌ", "Ӎ", "Ӑ", "Ӓ", "Ӕ", "Ӗ", "Ә", "Ӛ", "Ӝ", "Ӟ", "Ӡ", "Ӣ", "Ӥ",
      "Ӧ", "Ө", "Ӫ", "Ӭ", "Ӯ", "Ӱ", "Ӳ", "Ӵ", "Ӷ", "Ӹ", "Ӻ", "Ӽ", "Ӿ", "Ⴀ",
      "Ⴁ", "Ⴂ", "Ⴃ", "Ⴄ", "Ⴅ", "Ⴆ", "Ⴇ", "Ⴈ", "Ⴉ", "Ⴊ", "Ⴋ", "Ⴌ", "Ⴍ", "Ⴎ",
      "Ⴏ", "Ⴐ", "Ⴑ", "Ⴒ", "Ⴓ", "Ⴔ", "Ⴕ", "Ⴖ", "Ⴗ", "Ⴘ", "Ⴙ", "Ⴚ", "Ⴛ", "Ⴜ",
      "Ⴝ", "Ⴞ", "Ⴟ", "Ⴠ", "Ⴡ", "Ⴢ", "Ⴣ", "Ⴤ", "Ⴥ", "Ⴧ", "Ⴭ", "Ꭰ", "Ꭱ", "Ꭲ",
      "Ꭳ", "Ꭴ", "Ꭵ", "Ꭶ", "Ꭷ", "Ꭸ", "Ꭹ", "Ꭺ", "Ꭻ", "Ꭼ", "Ꭽ", "Ꭾ", "Ꭿ", "Ꮀ",
      "Ꮁ", "Ꮂ", "Ꮃ", "Ꮄ", "Ꮅ", "Ꮆ", "Ꮇ", "Ꮈ", "Ꮉ", "Ꮊ", "Ꮋ", "Ꮌ", "Ꮍ", "Ꮎ",
      "Ꮏ", "Ꮐ", "Ꮑ", "Ꮒ", "Ꮓ", "Ꮔ", "Ꮕ", "Ꮖ", "Ꮗ", "Ꮘ", "Ꮙ", "Ꮚ", "Ꮛ", "Ꮜ",
      "Ꮝ", "Ꮞ", "Ꮟ", "Ꮠ", "Ꮡ", "Ꮢ", "Ꮣ", "Ꮤ", "Ꮥ", "Ꮦ", "Ꮧ", "Ꮨ", "Ꮩ", "Ꮪ",
      "Ꮫ", "Ꮬ", "Ꮭ", "Ꮮ", "Ꮯ", "Ꮰ", "Ꮱ", "Ꮲ", "Ꮳ", "Ꮴ", "Ꮵ", "Ꮶ", "Ꮷ", "Ꮸ",
      "Ꮹ", "Ꮺ", "Ꮻ", "Ꮼ", "Ꮽ", "Ꮾ", "Ꮿ", "Ᏸ", "Ᏹ", "Ᏺ", "Ᏻ", "Ᏼ", "Ᏽ", "Ᲊ",
      "Ა", "Ბ", "Გ", "Დ", "Ე", "Ვ", "Ზ", "Თ", "Ი", "Კ", "Ლ", "Მ", "Ნ", "Ო",
      "Პ", "Ჟ", "Რ", "Ს", "Ტ", "Უ", "Ფ", "Ქ", "Ღ", "Ყ", "Შ", "Ჩ", "Ც", "Ძ",
      "Წ", "Ჭ", "Ხ", "Ჯ", "Ჰ", "Ჱ", "Ჲ", "Ჳ", "Ჴ", "Ჵ", "Ჶ", "Ჷ", "Ჸ", "Ჹ",
      "Ჺ", "Ჽ", "Ჾ", "Ჿ", "Ẁ", "Ẃ", "Ẅ", "Ẇ", "Ẉ", "Ẋ", "Ẍ", "Ẏ", "Ẑ", "Ẓ",
      "Ẕ", "ẞ", "Ạ", "Ả", "Ấ", "Ầ", "Ẩ", "Ẫ", "Ậ", "Ắ", "Ằ", "Ẳ", "Ẵ", "Ặ",
      "Ẹ", "Ẻ", "Ẽ", "Ế", "Ề", "Ể", "Ễ", "Ệ", "Ỉ", "Ị", "Ọ", "Ỏ", "Ố", "Ồ",
      "Ổ", "Ỗ", "Ộ", "Ớ", "Ờ", "Ở", "Ỡ", "Ợ", "Ụ", "Ủ", "Ứ", "Ừ", "Ử", "Ữ",
      "Ự", "Ỳ", "Ỵ", "Ỷ", "Ỹ", "Ỻ", "Ỽ", "Ỿ", "ᾈ", "ᾉ", "ᾊ", "ᾋ", "ᾌ", "ᾍ",
      "ᾎ", "ᾏ", "ᾘ", "ᾙ", "ᾚ", "ᾛ", "ᾜ", "ᾝ", "ᾞ", "ᾟ", "ᾨ", "ᾩ", "ᾪ", "ᾫ",
      "ᾬ", "ᾭ", "ᾮ", "ᾯ", "Ᾰ", "Ᾱ", "Ὰ", "Ά", "ᾼ", "Ὲ", "Έ", "Ὴ", "Ή", "ῌ",
      "Ῐ", "Ῑ", "Ὶ", "Ί", "Ῠ", "Ῡ", "Ὺ", "Ύ", "Ῥ", "Ὸ", "Ό", "Ὼ", "Ώ", "ῼ",
      "Ↄ", "Ⓐ", "Ⓑ", "Ⓒ", "Ⓓ", "Ⓔ", "Ⓕ", "Ⓖ", "Ⓗ", "Ⓘ", "Ⓙ", "Ⓚ", "Ⓛ", "Ⓜ",
      "Ⓝ", "Ⓞ", "Ⓟ", "Ⓠ", "Ⓡ", "Ⓢ", "Ⓣ", "Ⓤ", "Ⓥ", "Ⓦ", "Ⓧ", "Ⓨ", "Ⓩ", "Ⲁ",
      "Ⲃ", "Ⲅ", "Ⲇ", "Ⲉ", "Ⲋ", "Ⲍ", "Ⲏ", "Ⲑ", "Ⲓ", "Ⲕ", "Ⲗ", "Ⲙ", "Ⲛ", "Ⲝ",
      "Ⲟ", "Ⲡ", "Ⲣ", "Ⲥ", "Ⲧ", "Ⲩ", "Ⲫ", "Ⲭ", "Ⲯ", "Ⲱ", "Ⲳ", "Ⲵ", "Ⲷ", "Ⲹ",
      "Ⲻ", "Ⲽ", "Ⲿ", "Ⳁ", "Ⳃ", "Ⳅ", "Ⳇ", "Ⳉ", "Ⳋ", "Ⳍ", "Ⳏ", "Ⳑ", "Ⳓ", "Ⳕ",
      "Ⳗ", "Ⳙ", "Ⳛ", "Ⳝ", "Ⳟ", "Ⳡ", "Ⳣ", "Ⳬ", "Ⳮ", "Ⳳ", "Ꚁ", "Ꚃ", "Ꚅ", "Ꚇ",
      "Ꚉ", "Ꚋ", "Ꚍ", "Ꚏ", "Ꚑ", "Ꚓ", "Ꚕ", "Ꚗ", "Ꚙ", "Ꚛ", "Ꞁ", "Ꞃ", "Ꞅ", "Ꞇ",
      "Ꞌ", "Ɥ", "Ꞑ", "Ꞓ", "Ꞗ", "Ꞙ", "Ꞛ", "Ꞝ", "Ꞟ", "Ꞡ", "Ꞣ", "Ꞥ", "Ꞧ", "Ꞩ",
      "Ɦ", "Ɜ", "Ɡ", "Ɬ", "Ɪ", "Ʞ", "Ʇ", "Ʝ", "Ꭓ", "Ꞵ", "Ꞷ", "Ꞹ", "Ꞻ", "Ꞽ",
      "Ꞿ", "Ꟁ", "Ꟃ", "Ꞔ", "Ʂ", "Ᶎ", "Ꟈ", "Ꟊ", "Ɤ", "Ꟍ", "꟎", "Ꟑ", "꟒", "꟔",
      "Ꟗ", "Ꟙ", "Ꟛ", "Ƛ", "Ꟶ">>

LowerCase ==
    <<"a", "b", "c", "d", "e", "f", "g", "h", "i", "j", "k", "l",
      "m", "n", "o", "p", "q", "r", "s", "t", "u", "v", "w", "x",
      "y", "z", "à", "á", "â", "ã", "ä", "å", "æ", "ç", "è", "é",
      "ê", "ë", "ì", "í", "î", "ï", "ð", "ñ", "ò", "ó", "ô", "õ",
      "ö", "ø", "ù", "ú", "û", "ü", "ý", "þ", "U+0253", "ƃ", "ƅ", "U+0254",
      "ƈ", "U+0256", "U+0257", "ƌ", "ǝ", "U+0259", "U+025B", "ƒ", "U+0260", "U+0263", "U+0269", "U+0268",
      "ƙ", "U+026F", "U+0272", "U+0275", "ơ", "ƣ", "ƥ", "ʀ", "ƨ", "ʃ", "ƭ", "ʈ",
      "ư", "ʊ", "ʋ", "ƴ", "ƶ", "ʒ", "ƹ", "ƽ", "ǆ", "ǆ", "ǉ", "ǉ",
      "ǌ", "ǌ", "ǎ", "ǐ", "ǒ", "ǔ", "ǖ", "ǘ", "ǚ", "ǜ", "ǟ", "ǡ",
      "ǣ", "ǥ", "ǧ", "ǩ", "ǫ", "ǭ", "ǯ", "ǳ", "ǳ", "ǵ", "ƕ", "ƿ",
      "ǹ", "ǻ", "ǽ", "ǿ", "ά", "έ", "ή", "ί", "ό", "ύ", "ώ", "α",
      "β", "γ", "δ", "ε", "ζ", "η", "θ", "ι", "κ", "λ", "μ", "ν",
      "ξ", "ο", "π", "ρ", "σ", "τ", "υ", "φ", "χ", "ψ", "ω", "ϊ",
      "ϋ", "ϗ", "ϙ", "ϛ", "ϝ", "ϟ", "ϡ", "ϣ", "ϥ", "ϧ", "ϩ", "ϫ",
      "ϭ", "ϯ", "θ", "ϸ", "ϲ", "ϻ", "U+037B", "U+037C", "U+037D", "ҁ", "ҋ", "ҍ",
      "ҏ", "ґ", "ғ", "ҕ", "җ", "ҙ", "қ", "ҝ", "ҟ", "ҡ", "ң", "ҥ",
      "ҧ", "ҩ", "ҫ", "ҭ", "ү", "ұ", "ҳ", "ҵ", "ҷ", "ҹ", "һ", "ҽ",
      "ҿ", "ӏ", "ӂ", "ӄ", "ӆ", "ӈ", "ӊ", "ӌ", "ӎ", "ӑ", "ӓ", "ӕ",
      "ӗ", "ә", "ӛ", "ӝ", "ӟ", "ӡ", "ӣ", "ӥ", "ӧ", "ө", "ӫ", "ӭ",
      "ӯ", "ӱ", "ӳ", "ӵ", "ӷ", "ӹ", "ӻ", "ӽ", "ӿ", "U+2D00", "U+2D01", "U+2D02",
      "U+2D03", "U+2D04", "U+2D05", "U+2D06", "U+2D07", "U+2D08", "U+2D09", "U+2D0A", "U+2D0B", "U+2D0C", "U+2D0D", "U+2D0E",
      "U+2D0F", "U+2D10", "U+2D11", "U+2D12", "U+2D13", "U+2D14", "U+2D15", "U+2D16", "U+2D17", "U+2D18", "U+2D19", "U+2D1A",
      "U+2D1B", "U+2D1C", "U+2D1D", "U+2D1E", "U+2D1F", "U+2D20", "U+2D21", "U+2D22", "U+2D23", "U+2D24", "U+2D25", "U+2D27",
      "U+2D2D", "U+AB70", "U+AB71", "U+AB72", "U+AB73", "U+AB74", "U+AB75", "U+AB76", "U+AB77", "U+AB78", "U+AB79", "U+AB7A",
      "U+AB7B", "U+AB7C", "U+AB7D", "U+AB7E", "U+AB7F", "ꮀ", "ꮁ", "ꮂ", "ꮃ", "ꮄ", "ꮅ", "ꮆ",
      "ꮇ", "ꮈ", "ꮉ", "ꮊ", "ꮋ", "ꮌ", "ꮍ", "ꮎ", "ꮏ", "ꮐ", "ꮑ", "ꮒ",
      "ꮓ", "ꮔ", "ꮕ", "ꮖ", "ꮗ", "ꮘ", "ꮙ", "ꮚ", "ꮛ", "ꮜ", "ꮝ", "ꮞ",
      "ꮟ", "ꮠ", "ꮡ", "ꮢ", "ꮣ", "ꮤ", "ꮥ", "ꮦ", "ꮧ", "ꮨ", "ꮩ", "ꮪ",
      "ꮫ", "ꮬ", "ꮭ", "ꮮ", "ꮯ", "ꮰ", "ꮱ", "ꮲ", "ꮳ", "ꮴ", "ꮵ", "ꮶ",
      "ꮷ", "ꮸ", "ꮹ", "ꮺ", "ꮻ", "ꮼ", "ꮽ", "ꮾ", "ꮿ", "ᏸ", "ᏹ", "ᏺ",
      "ᏻ", "ᏼ", "ᏽ", "ᲊ", "ა", "ბ", "გ", "დ", "ე", "ვ", "ზ", "თ",
      "ი", "კ", "ლ", "მ", "ნ", "ო", "პ", "ჟ", "რ", "ს", "ტ", "უ",
      "ფ", "ქ", "ღ", "ყ", "შ", "ჩ", "ც", "ძ", "წ", "ჭ", "ხ", "ჯ",
      "ჰ", "ჱ", "ჲ", "ჳ", "ჴ", "ჵ", "ჶ", "ჷ", "ჸ", "ჹ", "ჺ", "ჽ",
      "ჾ", "ჿ", "ẁ", "ẃ", "ẅ", "ẇ", "ẉ", "ẋ", "ẍ", "ẏ", "ẑ", "ẓ",
      "ẕ", "ß", "ạ", "ả", "ấ", "ầ", "ẩ", "ẫ", "ậ", "ắ", "ằ", "ẳ",
      "ẵ", "ặ", "ẹ", "ẻ", "ẽ", "ế", "ề", "ể", "ễ", "ệ", "ỉ", "ị",
      "ọ", "ỏ", "ố", "ồ", "ổ", "ỗ", "ộ", "ớ", "ờ", "ở", "ỡ", "ợ",
      "ụ", "ủ", "ứ", "ừ", "ử", "ữ", "ự", "ỳ", "ỵ", "ỷ", "ỹ", "ỻ",
      "ỽ", "ỿ", "ᾀ", "ᾁ", "ᾂ", "ᾃ", "ᾄ", "ᾅ", "ᾆ", "ᾇ", "ᾐ", "ᾑ",
      "ᾒ", "ᾓ", "ᾔ", "ᾕ", "ᾖ", "ᾗ", "ᾠ", "ᾡ", "ᾢ", "ᾣ", "ᾤ", "ᾥ",
      "ᾦ", "ᾧ", "ᾰ", "ᾱ", "U+1F70", "U+1F71", "ᾳ", "U+1F72", "U+1F73", "U+1F74", "U+1F75", "ῃ",
      "ῐ", "ῑ", "U+1F76", "U+1F77", "ῠ", "ῡ", "U+1F7A", "U+1F7B", "ῥ", "U+1F78", "U+1F79", "U+1F7C",
      "U+1F7D", "ῳ", "ↄ", "ⓐ", "ⓑ", "ⓒ", "ⓓ", "ⓔ", "ⓕ", "ⓖ", "ⓗ", "ⓘ",
      "ⓙ", "ⓚ", "ⓛ", "ⓜ", "ⓝ", "ⓞ", "ⓟ", "ⓠ", "ⓡ", "ⓢ", "ⓣ", "ⓤ",
      "ⓥ", "ⓦ", "ⓧ", "ⓨ", "ⓩ", "ⲁ", "ⲃ", "ⲅ", "ⲇ", "ⲉ", "ⲋ", "ⲍ",
      "ⲏ", "ⲑ", "ⲓ", "ⲕ", "ⲗ", "ⲙ", "ⲛ", "ⲝ", "ⲟ", "ⲡ", "ⲣ", "ⲥ",
      "ⲧ", "ⲩ", "ⲫ", "ⲭ", "ⲯ", "ⲱ", "ⲳ", "ⲵ", "ⲷ", "ⲹ", "ⲻ", "ⲽ",
      "ⲿ", "ⳁ", "ⳃ", "ⳅ", "ⳇ", "ⳉ", "ⳋ", "ⳍ", "ⳏ", "ⳑ", "ⳓ", "ⳕ",
      "ⳗ", "ⳙ", "ⳛ", "ⳝ", "ⳟ", "ⳡ", "ⳣ", "ⳬ", "ⳮ", "ⳳ", "ꚁ", "ꚃ",
      "ꚅ", "ꚇ", "ꚉ", "ꚋ", "ꚍ", "ꚏ", "ꚑ", "ꚓ", "ꚕ", "ꚗ", "ꚙ", "ꚛ",
      "ꞁ", "ꞃ", "ꞅ", "ꞇ", "ꞌ", "U+0265", "ꞑ", "ꞓ", "ꞗ", "ꞙ", "ꞛ", "ꞝ",
      "ꞟ", "ꞡ", "ꞣ", "ꞥ", "ꞧ", "ꞩ", "U+0266", "U+025C", "U+0261", "U+026C", "U+026A", "ʞ",
      "ʇ", "ʝ", "U+AB53", "ꞵ", "ꞷ", "ꞹ", "ꞻ", "ꞽ", "ꞿ", "ꟁ", "ꟃ", "ꞔ",
      "ʂ", "ᶎ", "ꟈ", "ꟊ", "U+0264", "ꟍ", "꟏", "ꟑ", "ꟓ", "ꟕ", "ꟗ", "ꟙ",
      "ꟛ", "ƛ", "ꟶ">>

Capitals == {UpperCase[i] : i \in 1..Len(UpperCase)}

\* core::unicode::Cased
Cased ==
    {"A", "B", "C", "D", "E", "F", "G", "H", "I", "J", "K", "L",
     "M", "N", "O", "P", "Q", "R", "S", "T", "U", "V", "W", "X",
     "Y", "Z", "a", "b", "c", "d", "e", "f", "g", "h", "i", "j",
     "k", "l", "m", "n", "o", "p", "q", "r", "s", "t", "u", "v",
     "w", "x", "y", "z", "ª", "µ", "º", "À", "Á", "Â", "Ã", "Ä",
     "Å", "Æ", "Ç", "È", "É", "Ê", "Ë", "Ì", "Í", "Î", "Ï", "Ð",
     "Ñ", "Ò", "Ó", "Ô", "Õ", "Ö", "Ø", "Ù", "Ú", "Û", "Ü", "Ý",
     "Þ", "ß", "à", "á", "â", "ã", "ä", "å", "æ", "ç", "è", "é",
     "ê", "ë", "ì", "í", "î", "ï", "ð", "ñ", "ò", "ó", "ô", "õ",
     "ö", "ø", "ù", "ú", "û", "ü", "ý", "þ", "ÿ", "ƀ", "Ɓ", "Ƃ",
     "ƃ", "Ƅ", "ƅ", "Ɔ", "Ƈ", "ƈ", "Ɖ", "Ɗ", "Ƌ", "ƌ", "ƍ", "Ǝ",
     "Ə", "Ɛ", "Ƒ", "ƒ", "Ɠ", "Ɣ", "ƕ", "Ɩ", "Ɨ", "Ƙ", "ƙ", "ƚ",
     "ƛ", "Ɯ", "Ɲ", "ƞ", "Ɵ", "Ơ", "ơ", "Ƣ", "ƣ", "Ƥ", "ƥ", "Ʀ",
     "Ƨ", "ƨ", "Ʃ", "ƪ", "ƫ", "Ƭ", "ƭ", "Ʈ", "Ư", "ư", "Ʊ", "Ʋ",
     "Ƴ", "ƴ", "Ƶ", "ƶ", "Ʒ", "Ƹ", "ƹ", "ƺ", "Ƽ", "ƽ", "ƾ", "ƿ",
     "Ǆ", "ǅ", "ǆ", "Ǉ", "ǈ", "ǉ", "Ǌ", "ǋ", "ǌ", "Ǎ", "ǎ", "Ǐ",
     "ǐ", "Ǒ", "ǒ", "Ǔ", "ǔ", "Ǖ", "ǖ", "Ǘ", "ǘ", "Ǚ", "ǚ", "Ǜ",
     "ǜ", "ǝ", "Ǟ", "ǟ", "Ǡ", "ǡ", "Ǣ", "ǣ", "Ǥ", "ǥ", "Ǧ", "ǧ",
     "Ǩ", "ǩ", "Ǫ", "ǫ", "Ǭ", "ǭ", "Ǯ", "ǯ", "ǰ", "Ǳ", "ǲ", "ǳ",
     "Ǵ", "ǵ", "Ƕ", "Ƿ", "Ǹ", "ǹ", "Ǻ", "ǻ", "Ǽ", "ǽ", "Ǿ", "ǿ",
     "ʀ", "ʁ", "ʂ", "ʃ", "ʄ", "ʅ", "ʆ", "ʇ", "ʈ", "ʉ", "ʊ", "ʋ",
     "ʌ", "ʍ", "ʎ", "ʏ", "ʐ", "ʑ", "ʒ", "ʓ", "ʖ", "ʗ", "ʘ", "ʙ",
     "ʚ", "ʛ", "ʜ", "ʝ", "ʞ", "ʟ", "ʠ", "ʡ", "ʢ", "ʣ", "ʤ", "ʥ",
     "ʦ", "ʧ", "ʨ", "ʩ", "ʪ", "ʫ", "ʬ", "ʭ", "ʮ", "ʯ", "ʰ", "ʱ",
     "ʲ", "ʳ", "ʴ", "ʵ", "ʶ", "ʷ", "ʸ", "ˀ", "ˁ", "ˠ", "ˡ", "ˢ",
     "ˣ", "ˤ", "Ά", "Έ", "Ή", "Ί", "Ό", "Ύ", "Ώ", "ΐ", "Α", "Β",
     "Γ", "Δ", "Ε", "Ζ", "Η", "Θ", "Ι", "Κ", "Λ", "Μ", "Ν", "Ξ",
     "Ο", "Π", "Ρ", "Σ", "Τ", "Υ", "Φ", "Χ", "Ψ", "Ω", "Ϊ", "Ϋ",
     "ά", "έ", "ή", "ί", "ΰ", "α", "β", "γ", "δ", "ε", "ζ", "η",
     "θ", "ι", "κ", "λ", "μ", "ν", "ξ", "ο", "π", "ρ", "ς", "σ",
     "τ", "υ", "φ", "χ", "ψ", "ω", "ϊ", "ϋ", "ό", "ύ", "ώ", "Ϗ",
     "ϐ", "ϑ", "ϒ", "ϓ", "ϔ", "ϕ", "ϖ", "ϗ", "Ϙ", "ϙ", "Ϛ", "ϛ",
     "Ϝ", "ϝ", "Ϟ", "ϟ", "Ϡ", "ϡ", "Ϣ", "ϣ", "Ϥ", "ϥ", "Ϧ", "ϧ",
     "Ϩ", "ϩ", "Ϫ", "ϫ", "Ϭ", "ϭ", "Ϯ", "ϯ", "ϰ", "ϱ", "ϲ", "ϳ",
     "ϴ", "ϵ", "Ϸ", "ϸ", "Ϲ", "Ϻ", "ϻ", "ϼ", "Ͻ", "Ͼ", "Ͽ", "Ҁ",
     "ҁ", "Ҋ", "ҋ", "Ҍ", "ҍ", "Ҏ", "ҏ", "Ґ", "ґ", "Ғ", "ғ", "Ҕ",
     "ҕ", "Җ", "җ", "Ҙ", "ҙ", "Қ", "қ", "Ҝ", "ҝ", "Ҟ", "ҟ", "Ҡ",
     "ҡ", "Ң", "ң", "Ҥ", "ҥ", "Ҧ", "ҧ", "Ҩ", "ҩ", "Ҫ", "ҫ", "Ҭ",
     "ҭ", "Ү", "ү", "Ұ", "ұ", "Ҳ", "ҳ", "Ҵ", "ҵ", "Ҷ", "ҷ", "Ҹ",
     "ҹ", "Һ", "һ", "Ҽ", "ҽ", "Ҿ", "ҿ", "Ӏ", "Ӂ", "ӂ", "Ӄ", "ӄ",
     "Ӆ", "ӆ", "Ӈ", "ӈ", "Ӊ", "ӊ", "Ӌ", "ӌ", "Ӎ", "ӎ", "ӏ", "Ӑ",
     "ӑ", "Ӓ", "ӓ", "Ӕ", "ӕ", "Ӗ", "ӗ", "Ә", "ә", "Ӛ", "ӛ", "Ӝ",
     "ӝ", "Ӟ", "ӟ", "Ӡ", "ӡ", "Ӣ", "ӣ", "Ӥ", "ӥ", "Ӧ", "ӧ", "Ө",
     "ө", "Ӫ", "ӫ", "Ӭ", "ӭ", "Ӯ", "ӯ", "Ӱ", "ӱ", "Ӳ", "ӳ", "Ӵ",
     "ӵ", "Ӷ", "ӷ", "Ӹ", "ӹ", "Ӻ", "ӻ", "Ӽ", "ӽ", "Ӿ", "ӿ", "ր",
     "ց", "ւ", "փ", "ք", "օ", "ֆ", "և", "ֈ", "Ⴀ", "Ⴁ", "Ⴂ", "Ⴃ",
     "Ⴄ", "Ⴅ", "Ⴆ", "Ⴇ", "Ⴈ", "Ⴉ", "Ⴊ", "Ⴋ", "Ⴌ", "Ⴍ", "Ⴎ", "Ⴏ",
     "Ⴐ", "Ⴑ", "Ⴒ", "Ⴓ", "Ⴔ", "Ⴕ", "Ⴖ", "Ⴗ", "Ⴘ", "Ⴙ", "Ⴚ", "Ⴛ",
     "Ⴜ", "Ⴝ", "Ⴞ", "Ⴟ", "Ⴠ", "Ⴡ", "Ⴢ", "Ⴣ", "Ⴤ", "Ⴥ", "Ⴧ", "Ⴭ",
     "ა", "ბ", "გ", "დ", "ე", "ვ", "ზ", "თ", "ი", "კ", "ლ", "მ",
     "ნ", "ო", "პ", "ჟ", "რ", "ს", "ტ", "უ", "ფ", "ქ", "ღ", "ყ",
     "შ", "ჩ", "ც", "ძ", "წ", "ჭ", "ხ", "ჯ", "ჰ", "ჱ", "ჲ", "ჳ",
     "ჴ", "ჵ", "ჶ", "ჷ", "ჸ", "ჹ", "ჺ", "ჼ", "ჽ", "ჾ", "ჿ", "Ꭰ",
     "Ꭱ", "Ꭲ", "Ꭳ", "Ꭴ", "Ꭵ", "Ꭶ", "Ꭷ", "Ꭸ", "Ꭹ", "Ꭺ", "Ꭻ", "Ꭼ",
     "Ꭽ", "Ꭾ", "Ꭿ", "Ꮀ", "Ꮁ", "Ꮂ", "Ꮃ", "Ꮄ", "Ꮅ", "Ꮆ", "Ꮇ", "Ꮈ",
     "Ꮉ", "Ꮊ", "Ꮋ", "Ꮌ", "Ꮍ", "Ꮎ", "Ꮏ", "Ꮐ", "Ꮑ", "Ꮒ", "Ꮓ", "Ꮔ",
     "Ꮕ", "Ꮖ", "Ꮗ", "Ꮘ", "Ꮙ", "Ꮚ", "Ꮛ", "Ꮜ", "Ꮝ", "Ꮞ", "Ꮟ", "Ꮠ",
     "Ꮡ", "Ꮢ", "Ꮣ", "Ꮤ", "Ꮥ", "Ꮦ", "Ꮧ", "Ꮨ", "Ꮩ", "Ꮪ", "Ꮫ", "Ꮬ",
     "Ꮭ", "Ꮮ", "Ꮯ", "Ꮰ", "Ꮱ", "Ꮲ", "Ꮳ", "Ꮴ", "Ꮵ", "Ꮶ", "Ꮷ", "Ꮸ",
     "Ꮹ", "Ꮺ", "Ꮻ", "Ꮼ", "Ꮽ", "Ꮾ", "Ꮿ", "Ᏸ", "Ᏹ", "Ᏺ", "Ᏻ", "Ᏼ",
     "Ᏽ", "ᏸ", "ᏹ", "ᏺ", "ᏻ", "ᏼ", "ᏽ", "ᲀ", "ᲁ", "ᲂ", "ᲃ", "ᲄ",
     "ᲅ", "ᲆ", "ᲇ", "ᲈ", "Ᲊ", "ᲊ", "Ა", "Ბ", "Გ", "Დ", "Ე", "Ვ",
     "Ზ", "Თ", "Ი", "Კ", "Ლ", "Მ", "Ნ", "Ო", "Პ", "Ჟ", "Რ", "Ს",
     "Ტ", "Უ", "Ფ", "Ქ", "Ღ", "Ყ", "Შ", "Ჩ", "Ც", "Ძ", "Წ", "Ჭ",
     "Ხ", "Ჯ", "Ჰ", "Ჱ", "Ჲ", "Ჳ", "Ჴ", "Ჵ", "Ჶ", "Ჷ", "Ჸ", "Ჹ",
     "Ჺ", "Ჽ", "Ჾ", "Ჿ", "ᶀ", "ᶁ", "ᶂ", "ᶃ", "ᶄ", "ᶅ", "ᶆ", "ᶇ",
     "ᶈ", "ᶉ", "ᶊ", "ᶋ", "ᶌ", "ᶍ", "ᶎ", "ᶏ", "ᶐ", "ᶑ", "ᶒ", "ᶓ",
     "ᶔ", "ᶕ", "ᶖ", "ᶗ", "ᶘ", "ᶙ", "ᶚ", "ᶛ", "ᶜ", "ᶝ", "ᶞ", "ᶟ",
     "ᶠ", "ᶡ", "ᶢ", "ᶣ", "ᶤ", "ᶥ", "ᶦ", "ᶧ", "ᶨ", "ᶩ", "ᶪ", "ᶫ",
     "ᶬ", "ᶭ", "ᶮ", "ᶯ", "ᶰ", "ᶱ", "ᶲ", "ᶳ", "ᶴ", "ᶵ", "ᶶ", "ᶷ",
     "ᶸ", "ᶹ", "ᶺ", "ᶻ", "ᶼ", "ᶽ", "ᶾ", "ᶿ", "Ẁ", "ẁ", "Ẃ", "ẃ",
     "Ẅ", "ẅ", "Ẇ", "ẇ", "Ẉ", "ẉ", "Ẋ", "ẋ", "Ẍ", "ẍ", "Ẏ", "ẏ",
     "Ẑ", "ẑ", "Ẓ", "ẓ", "Ẕ", "ẕ", "ẖ", "ẗ", "ẘ", "ẙ", "ẚ", "ẛ",
     "ẜ", "ẝ", "ẞ", "ẟ", "Ạ", "ạ", "Ả", "ả", "Ấ", "ấ", "Ầ", "ầ",
     "Ẩ", "ẩ", "Ẫ", "ẫ", "Ậ", "ậ", "Ắ", "ắ", "Ằ", "ằ", "Ẳ", "ẳ",
     "Ẵ", "ẵ", "Ặ", "ặ", "Ẹ", "ẹ", "Ẻ", "ẻ", "Ẽ", "ẽ", "Ế", "ế",
     "Ề", "ề", "Ể", "ể", "Ễ", "ễ", "Ệ", "ệ", "Ỉ", "ỉ", "Ị", "ị",
     "Ọ", "ọ", "Ỏ", "ỏ", "Ố", "ố", "Ồ", "ồ", "Ổ", "ổ", "Ỗ", "ỗ",
     "Ộ", "ộ", "Ớ", "ớ", "Ờ", "ờ", "Ở", "ở", "Ỡ", "ỡ", "Ợ", "ợ",
     "Ụ", "ụ", "Ủ", "ủ", "Ứ", "ứ", "Ừ", "ừ", "Ử", "ử", "Ữ", "ữ",
     "Ự", "ự", "Ỳ", "ỳ", "Ỵ", "ỵ", "Ỷ", "ỷ", "Ỹ", "ỹ", "Ỻ", "ỻ",
     "Ỽ", "ỽ", "Ỿ", "ỿ", "ᾀ", "ᾁ", "ᾂ", "ᾃ", "ᾄ", "ᾅ", "ᾆ", "ᾇ",
     "ᾈ", "ᾉ", "ᾊ", "ᾋ", "ᾌ", "ᾍ", "ᾎ", "ᾏ", "ᾐ", "ᾑ", "ᾒ", "ᾓ",
     "ᾔ", "ᾕ", "ᾖ", "ᾗ", "ᾘ", "ᾙ", "ᾚ", "ᾛ", "ᾜ", "ᾝ", "ᾞ", "ᾟ",
     "ᾠ", "ᾡ", "ᾢ", "ᾣ", "ᾤ", "ᾥ", "ᾦ", "ᾧ", "ᾨ", "ᾩ", "ᾪ", "ᾫ",
     "ᾬ", "ᾭ", "ᾮ", "ᾯ", "ᾰ", "ᾱ", "ᾲ", "ᾳ", "ᾴ", "ᾶ", "ᾷ", "Ᾰ",
     "Ᾱ", "Ὰ", "Ά", "ᾼ", "ι", "ῂ", "ῃ", "ῄ", "ῆ", "ῇ", "Ὲ", "Έ",
     "Ὴ", "Ή", "ῌ", "ῐ", "ῑ", "ῒ", "ΐ", "ῖ", "ῗ", "Ῐ", "Ῑ", "Ὶ",
     "Ί", "ῠ", "ῡ", "ῢ", "ΰ", "ῤ", "ῥ", "ῦ", "ῧ", "Ῠ", "Ῡ", "Ὺ",
     "Ύ", "Ῥ", "ῲ", "ῳ", "ῴ", "ῶ", "ῷ", "Ὸ", "Ό", "Ὼ", "Ώ", "ῼ",
     "ₐ", "ₑ", "ₒ", "ₓ", "ₔ", "ₕ", "ₖ", "ₗ", "ₘ", "ₙ", "ₚ", "ₛ",
     "ₜ", "Ↄ", "ↄ", "Ⓐ", "Ⓑ", "Ⓒ", "Ⓓ", "Ⓔ", "Ⓕ", "Ⓖ", "Ⓗ", "Ⓘ",
     "Ⓙ", "Ⓚ", "Ⓛ", "Ⓜ", "Ⓝ", "Ⓞ", "Ⓟ", "Ⓠ", "Ⓡ", "Ⓢ", "Ⓣ", "Ⓤ",
     "Ⓥ", "Ⓦ", "Ⓧ", "Ⓨ", "Ⓩ", "ⓐ", "ⓑ", "ⓒ", "ⓓ", "ⓔ", "ⓕ", "ⓖ",
     "ⓗ", "ⓘ", "ⓙ", "ⓚ", "ⓛ", "ⓜ", "ⓝ", "ⓞ", "ⓟ", "ⓠ", "ⓡ", "ⓢ",
     "ⓣ", "ⓤ", "ⓥ", "ⓦ", "ⓧ", "ⓨ", "ⓩ", "Ⲁ", "ⲁ", "Ⲃ", "ⲃ", "Ⲅ",
     "ⲅ", "Ⲇ", "ⲇ", "Ⲉ", "ⲉ", "Ⲋ", "ⲋ", "Ⲍ", "ⲍ", "Ⲏ", "ⲏ", "Ⲑ",
     "ⲑ", "Ⲓ", "ⲓ", "Ⲕ", "ⲕ", "Ⲗ", "ⲗ", "Ⲙ", "ⲙ", "Ⲛ", "ⲛ", "Ⲝ",
     "ⲝ", "Ⲟ", "ⲟ", "Ⲡ", "ⲡ", "Ⲣ", "ⲣ", "Ⲥ", "ⲥ", "Ⲧ", "ⲧ", "Ⲩ",
     "ⲩ", "Ⲫ", "ⲫ", "Ⲭ", "ⲭ", "Ⲯ", "ⲯ", "Ⲱ", "ⲱ", "Ⲳ", "ⲳ", "Ⲵ",
     "ⲵ", "Ⲷ", "ⲷ", "Ⲹ", "ⲹ", "Ⲻ", "ⲻ", "Ⲽ", "ⲽ", "Ⲿ", "ⲿ", "Ⳁ",
     "ⳁ", "Ⳃ", "ⳃ", "Ⳅ", "ⳅ", "Ⳇ", "ⳇ", "Ⳉ", "ⳉ", "Ⳋ", "ⳋ", "Ⳍ",
     "ⳍ", "Ⳏ", "ⳏ", "Ⳑ", "ⳑ", "Ⳓ", "ⳓ", "Ⳕ", "ⳕ", "Ⳗ", "ⳗ", "Ⳙ",
     "ⳙ", "Ⳛ", "ⳛ", "Ⳝ", "ⳝ", "Ⳟ", "ⳟ", "Ⳡ", "ⳡ", "Ⳣ", "ⳣ", "ⳤ",
     "Ⳬ", "ⳬ", "Ⳮ", "ⳮ", "Ⳳ", "ⳳ", "Ꚁ", "ꚁ", "Ꚃ", "ꚃ", "Ꚅ", "ꚅ",
     "Ꚇ", "ꚇ", "Ꚉ", "ꚉ", "Ꚋ", "ꚋ", "Ꚍ", "ꚍ", "Ꚏ", "ꚏ", "Ꚑ", "ꚑ",
     "Ꚓ", "ꚓ", "Ꚕ", "ꚕ", "Ꚗ", "ꚗ", "Ꚙ", "ꚙ", "Ꚛ", "ꚛ", "ꚜ", "ꚝ",
     "Ꞁ", "ꞁ", "Ꞃ", "ꞃ", "Ꞅ", "ꞅ", "Ꞇ", "ꞇ", "Ꞌ", "ꞌ", "Ɥ", "ꞎ",
     "Ꞑ", "ꞑ", "Ꞓ", "ꞓ", "ꞔ", "ꞕ", "Ꞗ", "ꞗ", "Ꞙ", "ꞙ", "Ꞛ", "ꞛ",
     "Ꞝ", "ꞝ", "Ꞟ", "ꞟ", "Ꞡ", "ꞡ", "Ꞣ", "ꞣ", "Ꞥ", "ꞥ", "Ꞧ", "ꞧ",
     "Ꞩ", "ꞩ", "Ɦ", "Ɜ", "Ɡ", "Ɬ", "Ɪ", "ꞯ", "Ʞ", "Ʇ", "Ʝ", "Ꭓ",
     "Ꞵ", "ꞵ", "Ꞷ", "ꞷ", "Ꞹ", "ꞹ", "Ꞻ", "ꞻ", "Ꞽ", "ꞽ", "Ꞿ", "ꞿ",
     "Ꟁ", "ꟁ", "Ꟃ", "ꟃ", "Ꞔ", "Ʂ", "Ᶎ", "Ꟈ", "ꟈ", "Ꟊ", "ꟊ", "Ɤ",
     "Ꟍ", "ꟍ", "꟎", "꟏", "Ꟑ", "ꟑ", "꟒", "ꟓ", "꟔", "ꟕ", "Ꟗ", "ꟗ",
     "Ꟙ", "ꟙ", "Ꟛ", "ꟛ", "Ƛ", "꟱", "ꟲ", "ꟳ", "ꟴ", "Ꟶ", "ꟶ", "ꟸ",
     "ꟹ", "ꟺ", "ꮀ", "ꮁ", "ꮂ", "ꮃ", "ꮄ", "ꮅ", "ꮆ", "ꮇ", "ꮈ", "ꮉ",
     "ꮊ", "ꮋ", "ꮌ", "ꮍ", "ꮎ", "ꮏ", "ꮐ", "ꮑ", "ꮒ", "ꮓ", "ꮔ", "ꮕ",
     "ꮖ", "ꮗ", "ꮘ", "ꮙ", "ꮚ", "ꮛ", "ꮜ", "ꮝ", "ꮞ", "ꮟ", "ꮠ", "ꮡ",
     "ꮢ", "ꮣ", "ꮤ", "ꮥ", "ꮦ", "ꮧ", "ꮨ", "ꮩ", "ꮪ", "ꮫ", "ꮬ", "ꮭ",
     "ꮮ", "ꮯ", "ꮰ", "ꮱ", "ꮲ", "ꮳ", "ꮴ", "ꮵ", "ꮶ", "ꮷ", "ꮸ", "ꮹ",
     "ꮺ", "ꮻ", "ꮼ", "ꮽ", "ꮾ", "ꮿ", "U+0253", "U+0254", "U+0256", "U+0257", "U+0259", "U+025B",
     "U+025C", "U+0260", "U+0261", "U+0263", "U+0264", "U+0265", "U+0266", "U+0268", "U+0269", "U+026A", "U+026C", "U+026F",
     "U+0272", "U+0275", "U+037B", "U+037C", "U+037D", "U+1F70", "U+1F71", "U+1F72", "U+1F73", "U+1F74", "U+1F75", "U+1F76",
     "U+1F77", "U+1F78", "U+1F79", "U+1F7A", "U+1F7B", "U+1F7C", "U+1F7D", "U+2D00", "U+2D01", "U+2D02", "U+2D03", "U+2D04",
     "U+2D05", "U+2D06", "U+2D07", "U+2D08", "U+2D09", "U+2D0A", "U+2D0B", "U+2D0C", "U+2D0D", "U+2D0E", "U+2D0F", "U+2D10",
     "U+2D11", "U+2D12", "U+2D13", "U+2D14", "U+2D15", "U+2D16", "U+2D17", "U+2D18", "U+2D19", "U+2D1A", "U+2D1B", "U+2D1C",
     "U+2D1D", "U+2D1E", "U+2D1F", "U+2D20", "U+2D21", "U+2D22", "U+2D23", "U+2D24", "U+2D25", "U+2D27", "U+2D2D", "U+AB53",
     "U+AB70", "U+AB71", "U+AB72", "U+AB73", "U+AB74", "U+AB75", "U+AB76", "U+AB77", "U+AB78", "U+AB79", "U+AB7A", "U+AB7B",
     "U+AB7C", "U+AB7D", "U+AB7E", "U+AB7F"}

\* core::unicode::Case_Ignorable
CaseIgnorable ==
    {"'", ".", ":", "^", "¨", "­", "¯", "´", "·", "¸", "ʰ", "ʱ", "ʲ", "ʳ",
     "ʴ", "ʵ", "ʶ", "ʷ", "ʸ", "ʹ", "ʺ", "ʻ", "ʼ", "ʽ", "ʾ", "ʿ", "ˀ", "ˁ",
     "˂", "˃", "˄", "˅", "ˆ", "ˇ", "ˈ", "ˉ", "ˊ", "ˋ", "ˌ", "ˍ", "ˎ", "ˏ",
     "ː", "ˑ", "˒", "˓", "˔", "˕", "˖", "˗", "˘", "˙", "˚", "˛", "˜", "˝",
     "˞", "˟", "ˠ", "ˡ", "ˢ", "ˣ", "ˤ", "˥", "˦", "˧", "˨", "˩", "˪", "˫",
     "ˬ", "˭", "ˮ", "˯", "˰", "˱", "˲", "˳", "˴", "˵", "˶", "˷", "˸", "˹",
     "˺", "˻", "˼", "˽", "˾", "˿", "΄", "΅", "·", "҃", "҄", "҅", "҆", "҇",
     "҈", "҉", "֑", "֒", "֓", "֔", "֕", "֖", "֗", "֘", "֙", "֚", "֛", "֜",
     "֝", "֞", "֟", "֠", "֡", "֢", "֣", "֤", "֥", "֦", "֧", "֨", "֩", "֪",
     "֫", "֬", "֭", "֮", "֯", "ְ", "ֱ", "ֲ", "ֳ", "ִ", "ֵ", "ֶ", "ַ", "ָ",
     "ֹ", "ֺ", "ֻ", "ּ", "ֽ", "ֿ", "ׁ", "ׂ", "ׄ", "ׅ", "ׇ", "״", "ۖ", "ۗ",
     "ۘ", "ۙ", "ۚ", "ۛ", "ۜ", "۝", "۟", "۠", "ۡ", "ۢ", "ۣ", "ۤ", "ۥ", "ۦ",
     "ۧ", "ۨ", "۪", "۫", "۬", "ۭ", "ަ", "ާ", "ި", "ީ", "ު", "ޫ", "ެ", "ޭ",
     "ޮ", "ޯ", "ް", "߫", "߬", "߭", "߮", "߯", "߰", "߱", "߲", "߳", "ߴ", "ߵ",
     "ߺ", "߽", "࢈", "࢐", "࢑", "ࢗ", "࢘", "࢙", "࢚", "࢛", "࢜", "࢝", "࢞", "࢟",
     "ࣉ", "࣊", "࣋", "࣌", "࣍", "࣎", "࣏", "࣐", "࣑", "࣒", "࣓", "ࣔ", "ࣕ", "ࣖ",
     "ࣗ", "ࣘ", "ࣙ", "ࣚ", "ࣛ", "ࣜ", "ࣝ", "ࣞ", "ࣟ", "࣠", "࣡", "࣢", "ࣣ", "ࣤ",
     "ࣥ", "ࣦ", "ࣧ", "ࣨ", "ࣩ", "࣪", "࣫", "࣬", "࣭", "࣮", "࣯", "ࣰ", "ࣱ", "ࣲ",
     "ࣳ", "ࣴ", "ࣵ", "ࣶ", "ࣷ", "ࣸ", "ࣹ", "ࣺ", "ࣻ", "ࣼ", "ࣽ", "ࣾ", "ࣿ", "ঁ",
     "়", "ু", "ূ", "ৃ", "ৄ", "্", "ৢ", "ৣ", "৾", "ઁ", "ં", "઼", "ુ", "ૂ",
     "ૃ", "ૄ", "ૅ", "ે", "ૈ", "્", "ૢ", "ૣ", "ૺ", "ૻ", "ૼ", "૽", "૾", "૿",
     "ஂ", "ீ", "்", "ಁ", "಼", "ಿ", "ೆ", "ೌ", "್", "ೢ", "ೣ", "ඁ", "්", "ි",
     "ී", "ු", "ූ", "ັ", "ິ", "ີ", "ຶ", "ື", "ຸ", "ູ", "຺", "ົ", "ຼ", "ໆ",
     "່", "້", "໊", "໋", "໌", "ໍ", "໎", "ྀ", "ཱྀ", "ྂ", "ྃ", "྄", "྆", "྇",
     "ྍ", "ྎ", "ྏ", "ྐ", "ྑ", "ྒ", "ྒྷ", "ྔ", "ྕ", "ྖ", "ྗ", "ྙ", "ྚ", "ྛ",
     "ྜ", "ྜྷ", "ྞ", "ྟ", "ྠ", "ྡ", "ྡྷ", "ྣ", "ྤ", "ྥ", "ྦ", "ྦྷ", "ྨ", "ྩ",
     "ྪ", "ྫ", "ྫྷ", "ྭ", "ྮ", "ྯ", "ྰ", "ྱ", "ྲ", "ླ", "ྴ", "ྵ", "ྶ", "ྷ",
     "ྸ", "ྐྵ", "ྺ", "ྻ", "ྼ", "࿆", "ႂ", "ႅ", "ႆ", "ႍ", "ႝ", "ჼ", "឴", "឵",
     "ិ", "ី", "ឹ", "ឺ", "ុ", "ូ", "ួ", "ំ", "៉", "៊", "់", "៌", "៍", "៎",
     "៏", "័", "៑", "្", "៓", "ៗ", "៝", "ᢅ", "ᢆ", "ᢩ", "ᪧ", "᪰", "᪱", "᪲",
     "᪳", "᪴", "᪵", "᪶", "᪷", "᪸", "᪹", "᪺", "᪻", "᪼", "᪽", "᪾", "ᪿ", "ᫀ",
     "᫁", "᫂", "᫃", "᫄", "᫅", "᫆", "᫇", "᫈", "᫉", "᫊", "᫋", "ᫌ", "ᫍ", "ᫎ",
     "᫏", "᫐", "᫑", "᫒", "᫓", "᫔", "᫕", "᫖", "᫗", "᫘", "᫙", "᫚", "᫛", "᫜",
     "᫝", "᫠", "᫡", "᫢", "᫣", "᫤", "᫥", "᫦", "᫧", "᫨", "᫩", "᫪", "᫫", "ᮀ",
     "ᮁ", "ᮢ", "ᮣ", "ᮤ", "ᮥ", "ᮨ", "ᮩ", "᮫", "ᮬ", "ᮭ", "᯦", "ᯨ", "ᯩ", "ᯭ",
     "ᯯ", "ᯰ", "ᯱ", "᳐", "᳑", "᳒", "᳔", "᳕", "᳖", "᳗", "᳘", "᳙", "᳚", "᳛",
     "᳜", "᳝", "᳞", "᳟", "᳠", "᳢", "᳣", "᳤", "᳥", "᳦", "᳧", "᳨", "᳭", "᳴",
     "᳸", "᳹", "ᶛ", "ᶜ", "ᶝ", "ᶞ", "ᶟ", "ᶠ", "ᶡ", "ᶢ", "ᶣ", "ᶤ", "ᶥ", "ᶦ",
     "ᶧ", "ᶨ", "ᶩ", "ᶪ", "ᶫ", "ᶬ", "ᶭ", "ᶮ", "ᶯ", "ᶰ", "ᶱ", "ᶲ", "ᶳ", "ᶴ",
     "ᶵ", "ᶶ", "ᶷ", "ᶸ", "ᶹ", "ᶺ", "ᶻ", "ᶼ", "ᶽ", "ᶾ", "ᶿ", "᷀", "᷁", "᷂",
     "᷃", "᷄", "᷅", "᷆", "᷇", "᷈", "᷉", "᷊", "᷋", "᷌", "᷍", "᷎", "᷏", "᷐",
     "᷑", "᷒", "ᷓ", "ᷔ", "ᷕ", "ᷖ", "ᷗ", "ᷘ", "ᷙ", "ᷚ", "ᷛ", "ᷜ", "ᷝ", "ᷞ",
     "ᷟ", "ᷠ", "ᷡ", "ᷢ", "ᷣ", "ᷤ", "ᷥ", "ᷦ", "ᷧ", "ᷨ", "ᷩ", "ᷪ", "ᷫ", "ᷬ",
     "ᷭ", "ᷮ", "ᷯ", "ᷰ", "ᷱ", "ᷲ", "ᷳ", "ᷴ", "᷵", "᷶", "᷷", "᷸", "᷹", "᷺",
     "᷻", "᷼", "᷽", "᷾", "᷿", "᾽", "᾿", "῀", "῁", "῍", "῎", "῏", "῝", "῞",
     "῟", "῭", "΅", "`", "´", "῾", "ₐ", "ₑ", "ₒ", "ₓ", "ₔ", "ₕ", "ₖ", "ₗ",
     "ₘ", "ₙ", "ₚ", "ₛ", "ₜ", "⃐", "⃑", "⃒", "⃓", "⃔", "⃕", "⃖", "⃗", "⃘",
     "⃙", "⃚", "⃛", "⃜", "⃝", "⃞", "⃟", "⃠", "⃡", "⃢", "⃣", "⃤", "⃥", "⃦",
     "⃧", "⃨", "⃩", "⃪", "⃫", "⃬", "⃭", "⃮", "⃯", "⃰", "⳯", "⳰", "⳱", "ⷠ",
     "ⷡ", "ⷢ", "ⷣ", "ⷤ", "ⷥ", "ⷦ", "ⷧ", "ⷨ", "ⷩ", "ⷪ", "ⷫ", "ⷬ", "ⷭ", "ⷮ",
     "ⷯ", "ⷰ", "ⷱ", "ⷲ", "ⷳ", "ⷴ", "ⷵ", "ⷶ", "ⷷ", "ⷸ", "ⷹ", "ⷺ", "ⷻ", "ⷼ",
     "ⷽ", "ⷾ", "ⷿ", "゙", "゚", "゛", "゜", "ゝ", "ゞ", "ー", "ヽ", "ヾ", "ꓸ", "ꓹ",
     "ꓺ", "ꓻ", "ꓼ", "ꓽ", "ꚜ", "ꚝ", "ꚞ", "ꚟ", "꛰", "꛱", "ꞈ", "꞉", "꞊", "꟱",
     "ꟲ", "ꟳ", "ꟴ", "ꟸ", "ꟹ", "꣄", "ꣅ", "꣠", "꣡", "꣢", "꣣", "꣤", "꣥", "꣦",
     "꣧", "꣨", "꣩", "꣪", "꣫", "꣬", "꣭", "꣮", "꣯", "꣰", "꣱", "ꣿ", "ꦀ", "ꦁ",
     "ꦂ", "꦳", "ꦶ", "ꦷ", "ꦸ", "ꦹ", "ꦼ", "ꦽ", "ꧏ", "ꧥ", "ꧦ", "ꪰ", "ꪲ", "ꪳ",
     "ꪴ", "ꪷ", "ꪸ", "ꪾ", "꪿", "꫁", "ꫝ", "ꫬ", "ꫭ", "ꫳ", "ꫴ", "꫶", "ꯥ", "ꯨ",
     "꯭", "﮲", "﮳", "﮴", "﮵", "﮶", "﮷", "﮸", "﮹", "﮺", "﮻", "﮼", "﮽", "﮾",
     "﮿", "﯀", "﯁", "﯂", "﻿", "ﾞ", "ﾟ", "￣", "￹", "￺", "￻"}

\* char::to_lowercase: a capital becomes its lower-case letter, every other
\* character stays
ToLowerChar(c) ==
    IF c \in Capitals
    THEN LowerCase[CHOOSE i \in 1..Len(UpperCase) : UpperCase[i] = c]
    ELSE c

Reverse(s) == [i \in 1..Len(s) |-> s[Len(s) + 1 - i]]

RECURSIVE case_ignorable_then_cased(_)
\* iter.skip_while(Case_Ignorable).next() is a Cased character
case_ignorable_then_cased(t) ==
    IF t = <<>> THEN FALSE
    ELSE IF Head(t) \in CaseIgnorable THEN case_ignorable_then_cased(Tail(t))
    ELSE Head(t) \in Cased

\* map_uppercase_sigma: the capital sigma at s[i] ends a word when a cased
\* letter precedes it and none follows, case-ignorable characters skipped
is_word_final(s, i) ==
    /\ case_ignorable_then_cased(Reverse(SubSeq(s, 1, i - 1)))
    /\ ~case_ignorable_then_cased(SubSeq(s, i + 1, Len(s)))

\* str::to_lowercase: each character's lower-case form, but a capital sigma
\* becomes the final sigma at the end of a word
ToLowercase(s) ==
    [i \in 1..Len(s) |->
        IF s[i] = "Σ"
        THEN (IF is_word_final(s, i) THEN "ς" ELSE "σ")
        ELSE ToLowerChar(s[i])]

\* str::contains(&str): pat occurs in s as a contiguous substring
Contains(s, pat) ==
    \E i \in 1..(Len(s) - Len(pat) + 1) : SubSeq(s, i, i + Len(pat) - 1) = pat

\* the predicate of procs.retain(..)
NameMatches(p, query) == Contains(ToLowercase(p.name), ToLowercase(query))

Retain(procs, query) == SelectSeq(procs, LAMBDA p : NameMatches(p, query))

RECURSIVE InsertByCpu(_, _)
\* x precedes, in the unsorted input, every element of the sorted s: it goes
\* after the elements with a greater cpu and before those with an equal one
InsertByCpu(x, s) ==
    IF s = <<>> THEN <<x>>
    ELSE IF Head(s).cpu > x.cpu THEN <<Head(s)>> \o InsertByCpu(x, Tail(s))
    ELSE <<x>> \o s

RECURSIVE SortByCpu(_)
\* sort_by(|a, b| b.cpu_usage().partial_cmp(&a.cpu_usage())..): stable, descending
SortByCpu(procs) ==
    IF procs = <<>> THEN <<>> ELSE InsertByCpu(Head(procs), SortByCpu(Tail(procs)))

\* Vec::truncate(n)
Truncate(s, n) == SubSeq(s, 1, Min(Len(s), n))

\* ProcessCache with the unfiltered branch truncating before it sorts
ProcessCacheTruncateFirst(procs, query) ==
    IF query # <<>>
    THEN SortByCpu(Retain(procs, query))
    ELSE SortByCpu(Truncate(procs, TOP_K))

ProcessCache(procs, query) ==
    IF query # <<>>
    THEN SortByCpu(Retain(procs, query))
    ELSE Truncate(SortByCpu(procs), TOP_K)

----------------------------------------------------------------------------
(* The clock of the event loop *)

\* times a frame, or the wait for an event and its handling, can take
Delays == {0, 700}

\* the elapsed time after dt more milliseconds
After(e, dt) == Min(e + dt, MaxElapsed)

\* Timeout by plain subtraction, without the saturation at zero
TimeoutUnsaturated(e) == TICK_RATE - e

\* tick_rate.checked_sub(last_tick.elapsed()).unwrap_or_else(|| Duration::from_secs(0))
Timeout(e) == IF TICK_RATE >= e THEN TICK_RATE - e ELSE 0

\* time passes while an event is waited for (it arrives before the timeout runs
\* out) and handled
Elapse == \E dt \in Delays : elapsed' = After(elapsed, dt)

----------------------------------------------------------------------------
(* The App struct *)

tick_vars == <<system, cpu_history, mem_history, net_rx_history, net_tx_history,
               processes>>

\* ThemePreset::next
ThemeNext(t) ==
    IF t = "Default" THEN "Cyberpunk" ELSE IF t = "Cyberpunk" THEN "Matrix" ELSE "Default"

\* Vec::get(i), with i counted from 0
Get(v, i) == IF i < Len(v) THEN Some(v[i + 1]) ELSE None

\* NextIndex with the wrap test off by one: i >= n instead of i >= n - 1
NextIndexWrapsLate(sel, n) ==
    IF IsSome(sel) THEN (IF Unwrap(sel) >= n THEN 0 ELSE Unwrap(sel) + 1) ELSE 0

\* the match of next_process on process_state.selected(), n = processes.len()
NextIndex(sel, n) ==
    IF IsSome(sel) THEN (IF Unwrap(sel) >= n - 1 THEN 0 ELSE Unwrap(sel) + 1) ELSE 0

\* the match of previous_process on process_state.selected()
PreviousIndex(sel, n) ==
    IF IsSome(sel) THEN (IF Unwrap(sel) = 0 THEN n - 1 ELSE Unwrap(sel) - 1) ELSE 0

\* SelectedEntry that ignores the selection and takes the first row
SelectedEntryFirstRow(sel, procs) == Get(procs, 0)

\* the entry of the table that kill_selected_process and
\* inspect_selected_process act on: processes.get(i) for Some(i) = selected()
SelectedEntry(sel, procs) == IF IsSome(sel) THEN Get(procs, Unwrap(sel)) ELSE None

\* KillTarget that takes the first row of the table instead of the selected one
KillTargetFirstRow(sel, procs, sys) ==
    LET e == Get(procs, 0)
    IN  IF IsSome(e) /\ SystemHasProcess(sys, Unwrap(e).pid)
        THEN Some(Unwrap(e).pid) ELSE None

\* the pid kill_selected_process calls process.kill() on, if any
KillTarget(sel, procs, sys) ==
    LET e == SelectedEntry(sel, procs)
    IN  IF IsSome(e) /\ SystemHasProcess(sys, Unwrap(e).pid)
        THEN Some(Unwrap(e).pid) ELSE None

\* App::new, but for `system`, which the first refresh_all fills
AppNew ==
    /\ cpu_history = Zeroes(HISTORY_LEN)
    /\ mem_history = Zeroes(HISTORY_LEN)
    /\ net_rx_history = Zeroes(HISTORY_LEN)
    /\ net_tx_history = Zeroes(HISTORY_LEN)
    /\ should_quit = FALSE
    /\ process_state = Some(0)
    /\ processes = <<>>
    /\ input_mode = "Normal"
    /\ search_query = <<>>
    /\ selected_pid = None
    /\ current_theme = "Default"

\* on_tick that also moves a selection past the last row of the new view to its
\* last row
on_tick_clamps_cursor(snap) ==
    /\ system' = snap
    /\ cpu_history' = PushHistory(cpu_history, CpuUsageAsU64(snap.cpu))
    /\ mem_history' = PushHistory(mem_history,
                                  MemPercent(snap.used_memory, snap.total_memory))
    /\ net_rx_history' = PushHistory(net_rx_history, TotalRx(snap.networks))
    /\ net_tx_history' = PushHistory(net_tx_history, TotalTx(snap.networks))
    /\ processes' = ProcessCache(snap.procs, search_query)
    /\ process_state' =
          IF IsSome(process_state) /\ processes' # <<>>
          THEN Some(Min(Unwrap(process_state), Len(processes') - 1))
          ELSE process_state
    /\ UNCHANGED <<should_quit, input_mode, search_query, selected_pid,
                   current_theme>>

\* App::on_tick with the provider's new snapshot

on_tick(snap) ==
    /\ system' = snap
    /\ cpu_history' = PushHistory(cpu_history, CpuUsageAsU64(snap.cpu))
    /\ mem_history' = PushHistory(mem_history,
                                  MemPercent(snap.used_memory, snap.total_memory))
    /\ net_rx_history' = PushHistory(net_rx_history, TotalRx(snap.networks))
    /\ net_tx_history' = PushHistory(net_tx_history, TotalTx(snap.networks))
    /\ processes' = ProcessCache(snap.procs, search_query)
    /\ UNCHANGED <<should_quit, process_state, input_mode, search_query,
                   selected_pid, current_theme>>

next_process ==
    IF processes = <<>> THEN UNCHANGED process_state
    ELSE process_state' = Some(NextIndex(process_state, Len(processes)))

previous_process ==
    IF processes = <<>> THEN UNCHANGED process_state
    ELSE process_state' = Some(PreviousIndex(process_state, Len(processes)))

kill_selected_process == kill_request' = KillTarget(process_state, processes, system)

inspect_selected_process ==
    LET e == SelectedEntry(process_state, processes)
    IN  IF IsSome(e)
        THEN selected_pid' = Some(Unwrap(e).pid) /\ input_mode' = "Details"
        ELSE UNCHANGED <<selected_pid, input_mode>>

----------------------------------------------------------------------------
(* ui *)

\* What rendering the process table does to the TableState (ratatui's Table
\* widget, called at render_stateful_widget): nothing when the table's inner
\* area is empty (a terminal too small for it); otherwise a selection past the
\* last row is moved to the last row, and an empty table clears the selection.
RenderTable(sel, rows, area_empty) ==
    IF area_empty THEN sel
    ELSE IF rows = 0 THEN None
    ELSE IF IsSome(sel) /\ Unwrap(sel) >= rows THEN Some(rows - 1)
    ELSE sel

\* *app.cpu_history.back().unwrap_or(&0): the value a gauge shows
Latest(h) == IF h = <<>> THEN 0 ELSE h[Len(h)]

\* PopupShown without the lookup of the pid in the provider
PopupShownWithoutLookup(mode, pid, sys) == mode = "Details" /\ IsSome(pid)

\* the three nested conditions of the Process Details Popup
PopupShown(mode, pid, sys) ==
    mode = "Details" /\ IsSome(pid) /\ SystemHasProcess(sys, Unwrap(pid))

----------------------------------------------------------------------------
(* main: set-up *)

\* a `?` that returns Err: main ends with the terminal as it is; `call` is the
\* call whose error main returns
Fail(call) ==
    /\ pc' = "done"
    /\ result' = <<"Err", call>>
    /\ UNCHANGED <<raw_mode, alt_screen>>

Init ==
    /\ pc = "start"
    /\ result = <<"running">>
    /\ raw_mode = FALSE
    /\ alt_screen = FALSE
    /\ system \in Snapshots
    /\ AppNew
    /\ kill_request = None
    /\ popup = FALSE
    /\ ticks = 0
    /\ elapsed = 0
    /\ event = "none"

EnableRawMode ==
    /\ pc = "start"
    /\ \E ok \in BOOLEAN :
          IF ok THEN pc' = "alt" /\ raw_mode' = TRUE /\ UNCHANGED <<result, alt_screen>>
          ELSE Fail("enable_raw_mode")
    /\ UNCHANGED <<app_vars, kill_request, popup, ticks, elapsed, event>>

EnterAlternateScreen ==
    /\ pc = "alt"
    /\ \E ok \in BOOLEAN :
          IF ok THEN pc' = "term" /\ alt_screen' = TRUE /\ UNCHANGED <<result, raw_mode>>
          ELSE Fail("EnterAlternateScreen")
    /\ UNCHANGED <<app_vars, kill_request, popup, ticks, elapsed, event>>

\* Terminal::new(backend)?, then App::new() and last_tick
NewTerminal ==
    /\ pc = "term"
    /\ \E ok \in BOOLEAN :
          IF ok THEN pc' = "draw" /\ UNCHANGED term_vars ELSE Fail("Terminal::new")
    /\ UNCHANGED <<app_vars, kill_request, popup, ticks>>
    /\ elapsed' = 0
    /\ UNCHANGED event

----------------------------------------------------------------------------
(* main: the event loop *)

\* terminal.draw(|f| ui(f, &mut app))?. The terminal can fail before it calls the
\* closure (the resize) or after it (writing the frame out): `rendered` says
\* that ui ran, and then the table's render has acted on process_state whether
\* or not draw returns Ok. A frame that failed while it was written out may or
\* may not be the one on the screen. The frame takes its time either way.
Draw ==
    /\ pc = "draw"
    /\ \E ok \in BOOLEAN, rendered \in BOOLEAN, area_empty \in BOOLEAN, dt \in Delays :
          /\ elapsed' = After(elapsed, dt)
          /\ process_state' =
                IF ok \/ rendered
                THEN RenderTable(process_state, Len(processes), area_empty)
                ELSE process_state
          /\ IF ok
             THEN /\ pc' = "poll"
                  /\ popup' = PopupShown(input_mode, selected_pid, system)
                  /\ UNCHANGED term_vars
             ELSE /\ Fail("draw")
                  /\ popup' \in IF rendered
                                THEN {popup, PopupShown(input_mode, selected_pid, system)}
                                ELSE {popup}
    /\ UNCHANGED <<tick_vars, should_quit, input_mode, search_query, selected_pid,
                   current_theme, kill_request, ticks, event>>

\* crossterm::event::poll(timeout)? returns Err
PollFail ==
    /\ pc = "poll"
    /\ Fail("poll")
    /\ UNCHANGED <<app_vars, kill_request, popup, ticks, elapsed, event>>

\* poll returns Ok(false): no event within the timeout
PollTimeout ==
    /\ pc = "poll"
    /\ pc' = "tick"
    /\ kill_request' = None
    /\ UNCHANGED <<term_vars, app_vars, popup, ticks>>
    /\ elapsed' = After(elapsed, Timeout(elapsed))
    /\ event' = "timeout"

\* poll returns Ok(true) and event::read()? returns Err
ReadFail ==
    /\ pc = "poll"
    /\ Fail("read")
    /\ UNCHANGED <<app_vars, kill_request, popup, ticks, elapsed, event>>

\* events that fail `if let Event::Key(key)` or `key.kind == KeyEventKind::Press`:
\* events that are no key events, and releases and repeats of keys that the
\* modes act on when pressed
IgnoredEvents ==
    {<<"Resize">>, <<"Mouse">>}
       \cup {<<"Key", kind, key>> : kind \in {"Release", "Repeat"},
                                    key \in {Char("q"), Char("x"), Enter}}

\* IgnoredEvent in which the release or repeat of a quit key quits
IgnoredEventReleaseQuits(ev) ==
    /\ pc = "poll"
    /\ ev \in IgnoredEvents
    /\ pc' = "tick"
    /\ event' = "ignored"
    /\ kill_request' = None
    /\ IF ev[1] = "Key" /\ ev[3] = Char("q") /\ input_mode = "Normal"
       THEN /\ should_quit' = TRUE
            /\ UNCHANGED <<tick_vars, process_state, input_mode, search_query,
                           selected_pid, current_theme>>
       ELSE UNCHANGED app_vars
    /\ UNCHANGED <<term_vars, popup, ticks>>
    /\ Elapse

IgnoredEvent(ev) ==
    /\ pc = "poll"
    /\ ev \in IgnoredEvents
    /\ pc' = "tick"
    /\ event' = "ignored"
    /\ kill_request' = None
    /\ UNCHANGED <<term_vars, app_vars, popup, ticks>>
    /\ Elapse

QuitKeys == {Char("q"), Esc}
NextKeys == {Down, Char("j")}
PreviousKeys == {Up, Char("k")}
KillKeys == {Char("x"), Delete}
FilterKeys == {Char("/")}
InspectKeys == {Enter}
ThemeKeys == {Char("t")}

\* EnterEditing without process_state.select(Some(0))
EnterEditingKeepsCursor ==
    /\ input_mode' = "Editing"
    /\ UNCHANGED process_state

\* the KeyCode::Char('/') arm
EnterEditing ==
    /\ input_mode' = "Editing"
    /\ process_state' = Some(0)

\* the KeyCode::Enter | KeyCode::Esc arm of InputMode::Editing
LeaveEditing ==
    /\ input_mode' = "Normal"
    /\ UNCHANGED search_query

\* LeaveDetails that keeps selected_pid
LeaveDetailsKeepsPid ==
    /\ input_mode' = "Normal"
    /\ UNCHANGED selected_pid

\* the KeyCode::Esc | KeyCode::Enter | KeyCode::Backspace arm of InputMode::Details
LeaveDetails ==
    /\ input_mode' = "Normal"
    /\ selected_pid' = None

\* a key press dispatched by the InputMode::Normal arm
KeyNormal(key) ==
    /\ pc = "poll"
    /\ input_mode = "Normal"
    /\ pc' = "tick"
    /\ CASE key \in QuitKeys ->
              /\ should_quit' = TRUE
              /\ UNCHANGED <<process_state, input_mode, search_query, selected_pid,
                             current_theme>>
         [] key \in NextKeys ->
              /\ next_process
              /\ UNCHANGED <<should_quit, input_mode, search_query, selected_pid,
                             current_theme>>
         [] key \in PreviousKeys ->
              /\ previous_process
              /\ UNCHANGED <<should_quit, input_mode, search_query, selected_pid,
                             current_theme>>
         [] key \in FilterKeys ->
              /\ EnterEditing
              /\ UNCHANGED <<should_quit, search_query, selected_pid, current_theme>>
         [] key \in InspectKeys ->
              /\ inspect_selected_process
              /\ UNCHANGED <<should_quit, process_state, search_query, current_theme>>
         [] key \in ThemeKeys ->
              /\ current_theme' = ThemeNext(current_theme)
              /\ UNCHANGED <<should_quit, process_state, input_mode, search_query,
                             selected_pid>>
         [] OTHER ->
              UNCHANGED <<should_quit, process_state, input_mode, search_query,
                          selected_pid, current_theme>>
    /\ IF key \in KillKeys THEN kill_selected_process ELSE kill_request' = None
    /\ UNCHANGED <<term_vars, tick_vars, popup, ticks>>
    /\ Elapse
    /\ event' = "press"

\* String::pop
Pop(s) == IF s = <<>> THEN s ELSE SubSeq(s, 1, Len(s) - 1)

\* KeyEditing in which the quit character quits instead of being typed
KeyEditingQuitCharQuits(key) ==
    /\ pc = "poll"
    /\ input_mode = "Editing"
    /\ key.code = "Char" => key.ch \in EditChars /\ Len(search_query) < MaxQueryLen
    /\ pc' = "tick"
    /\ CASE key \in {Enter, Esc} ->
              LeaveEditing /\ UNCHANGED should_quit
         [] key = Backspace ->
              /\ search_query' = Pop(search_query)
              /\ UNCHANGED <<input_mode, should_quit>>
         [] key \in QuitKeys ->
              /\ should_quit' = TRUE
              /\ UNCHANGED <<search_query, input_mode>>
         [] key.code = "Char" ->
              /\ search_query' = Append(search_query, key.ch)
              /\ UNCHANGED <<input_mode, should_quit>>
         [] OTHER ->
              UNCHANGED <<search_query, input_mode, should_quit>>
    /\ kill_request' = None
    /\ UNCHANGED <<term_vars, tick_vars, process_state, selected_pid,
                   current_theme, popup, ticks>>
    /\ Elapse
    /\ event' = "press"

\* KeyEditing that rebuilds the view from the new query at every key
KeyEditingRebuildsView(key) ==
    /\ pc = "poll"
    /\ input_mode = "Editing"
    /\ key.code = "Char" => key.ch \in EditChars /\ Len(search_query) < MaxQueryLen
    /\ pc' = "tick"
    /\ CASE key \in {Enter, Esc} ->
              LeaveEditing
         [] key = Backspace ->
              /\ search_query' = Pop(search_query)
              /\ UNCHANGED input_mode
         [] key.code = "Char" ->
              /\ search_query' = Append(search_query, key.ch)
              /\ UNCHANGED input_mode
         [] OTHER ->
              UNCHANGED <<search_query, input_mode>>
    /\ processes' = ProcessCache(system.procs, search_query')
    /\ kill_request' = None
    /\ UNCHANGED <<term_vars, system, cpu_history, mem_history, net_rx_history,
                   net_tx_history, should_quit, process_state, selected_pid,
                   current_theme, popup, ticks>>
    /\ Elapse
    /\ event' = "press"

\* a key press dispatched by the InputMode::Editing arm; the characters typed are
\* those of EditChars, and at most MaxQueryLen of them are in the query at a time
KeyEditing(key) ==
    /\ pc = "poll"
    /\ input_mode = "Editing"
    /\ key.code = "Char" => key.ch \in EditChars /\ Len(search_query) < MaxQueryLen
    /\ pc' = "tick"
    /\ CASE key \in {Enter, Esc} ->
              LeaveEditing
         [] key = Backspace ->
              /\ search_query' = Pop(search_query)
              /\ UNCHANGED input_mode
         [] key.code = "Char" ->
              /\ search_query' = Append(search_query, key.ch)
              /\ UNCHANGED input_mode
         [] OTHER ->
              UNCHANGED <<search_query, input_mode>>
    /\ kill_request' = None
    /\ UNCHANGED <<term_vars, tick_vars, should_quit, process_state, selected_pid,
                   current_theme, popup, ticks>>
    /\ Elapse
    /\ event' = "press"

\* a key press dispatched by the InputMode::Details arm
KeyDetails(key) ==
    /\ pc = "poll"
    /\ input_mode = "Details"
    /\ pc' = "tick"
    /\ IF key \in {Esc, Enter, Backspace}
       THEN LeaveDetails
       ELSE UNCHANGED <<input_mode, selected_pid>>
    /\ kill_request' = None
    /\ UNCHANGED <<term_vars, tick_vars, should_quit, process_state, search_query,
                   current_theme, popup, ticks>>
    /\ Elapse
    /\ event' = "press"

\* last_tick.elapsed() >= tick_rate: app.on_tick() with the provider's new snapshot
Tick(snap) ==
    /\ pc = "tick"
    /\ elapsed >= TICK_RATE
    /\ ticks < MaxTicks
    /\ on_tick(snap)
    /\ ticks' = ticks + 1
    /\ pc' = "quit"
    /\ UNCHANGED <<term_vars, kill_request, popup>>
    /\ elapsed' = 0
    /\ event' = "none"

\* last_tick.elapsed() < tick_rate
NoTick ==
    /\ pc = "tick"
    /\ elapsed < TICK_RATE
    /\ pc' = "quit"
    /\ UNCHANGED <<term_vars, app_vars, kill_request, popup, ticks, elapsed>>
    /\ event' = "none"

\* QuitCheck that never leaves the loop
QuitCheckNeverBreaks ==
    /\ pc = "quit"
    /\ pc' = "draw"
    /\ UNCHANGED <<term_vars, app_vars, kill_request, popup, ticks, elapsed, event>>

\* if app.should_quit { break; }
QuitCheck ==
    /\ pc = "quit"
    /\ pc' = IF should_quit THEN "teardown" ELSE "draw"
    /\ UNCHANGED <<term_vars, app_vars, kill_request, popup, ticks, elapsed, event>>

----------------------------------------------------------------------------
(* main: teardown *)

DisableRawMode ==
    /\ pc = "teardown"
    /\ \E ok \in BOOLEAN :
          IF ok THEN pc' = "leave_alt" /\ raw_mode' = FALSE /\ UNCHANGED <<result, alt_screen>>
          ELSE Fail("disable_raw_mode")
    /\ UNCHANGED <<app_vars, kill_request, popup, ticks, elapsed, event>>

LeaveAlternateScreen ==
    /\ pc = "leave_alt"
    /\ \E ok \in BOOLEAN :
          IF ok THEN pc' = "show_cursor" /\ alt_screen' = FALSE /\ UNCHANGED <<result, raw_mode>>
          ELSE Fail("LeaveAlternateScreen")
    /\ UNCHANGED <<app_vars, kill_request, popup, ticks, elapsed, event>>

\* terminal.show_cursor()?; Ok(())
ShowCursor ==
    /\ pc = "show_cursor"
    /\ \E ok \in BOOLEAN :
          IF ok THEN pc' = "done" /\ result' = <<"Ok">> /\ UNCHANGED <<raw_mode, alt_screen>>
          ELSE Fail("show_cursor")
    /\ UNCHANGED <<app_vars, kill_request, popup, ticks, elapsed, event>>

----------------------------------------------------------------------------

Next ==
    \/ EnableRawMode
    \/ EnterAlternateScreen
    \/ NewTerminal
    \/ Draw
    \/ PollFail
    \/ PollTimeout
    \/ ReadFail
    \/ \E ev \in IgnoredEvents : IgnoredEvent(ev)
    \/ \E key \in KeyCodes : KeyNormal(key)
    \/ \E key \in KeyCodes : KeyEditing(key)
    \/ \E key \in KeyCodes : KeyDetails(key)
    \/ \E snap \in Snapshots : Tick(snap)
    \/ NoTick
    \/ QuitCheck
    \/ DisableRawMode
    \/ LeaveAlternateScreen
    \/ ShowCursor

Spec == Init /\ [][Next]_vars

----------------------------------------------------------------------------
(* The process view builder on its own: on_tick applied to a state the loop  *)
(* can be in at its tick check, for every query of bounded length and for    *)
(* process tables that exceed the cap of the unfiltered view.                *)

InitView ==
    /\ pc = "tick"
    /\ result = <<"running">>
    /\ raw_mode = TRUE
    /\ alt_screen = TRUE
    /\ system \in ViewSnapshots
    /\ cpu_history = Zeroes(HISTORY_LEN)
    /\ mem_history = Zeroes(HISTORY_LEN)
    /\ net_rx_history = Zeroes(HISTORY_LEN)
    /\ net_tx_history = Zeroes(HISTORY_LEN)
    /\ should_quit = FALSE
    /\ process_state = Some(0)
    /\ processes = <<>>
    /\ input_mode = "Normal"
    /\ search_query \in Strings(ViewChars, MaxViewQueryLen)
    /\ selected_pid = None
    /\ current_theme = "Default"
    /\ kill_request = None
    /\ popup = FALSE
    /\ ticks = 0
    /\ elapsed = TICK_RATE
    /\ event = "none"

ViewTick(snap) ==
    /\ ticks < MaxTicks
    /\ on_tick(snap)
    /\ ticks' = ticks + 1
    /\ UNCHANGED <<pc, term_vars, kill_request, popup, elapsed>>
    /\ event' = "none"

NextView == \E snap \in ViewSnapshots : ViewTick(snap)

SpecView == InitView /\ [][NextView]_vars

----------------------------------------------------------------------------
(* Properties *)

\* C1: whenever the process view is non-empty, the selected index is inside it:
\* 0 <= cursor < len(processes), in every reachable state.  (Stated for a
\* selection that is present; a selection that is absent is the subject of C16.)
Claim_C1_CursorInRange ==
    (processes # <<>> /\ IsSome(process_state))
        => (0 <= Unwrap(process_state) /\ Unwrap(process_state) < Len(processes))

\* C2: in Editing mode the escape key returns to Normal with the query
\* cleared, and the confirm key returns to Normal with the query as it was.
Claim_C2_EscapeClearsQuery ==
    [][ /\ KeyEditing(Esc) => (input_mode' = "Normal" /\ search_query' = <<>>)
        /\ KeyEditing(Enter) => (input_mode' = "Normal" /\ search_query' = search_query)
      ]_vars

\* C3: the program never ends with the terminal still in raw mode or on the
\* alternate screen when it ends by a normal quit or because a draw, an event
\* poll or an event read failed inside the loop.
Claim_C3_TerminalRestored ==
    (pc = "done" /\ result \in {<<"Ok">>, <<"Err", "draw">>, <<"Err", "poll">>,
                                <<"Err", "read">>})
        => (~raw_mode /\ ~alt_screen)

\* C4: the filter key in Normal mode switches to Editing, selects index 0 and
\* leaves the query unchanged, whatever the selection, view and query were.
Thm_C4_FilterKeyResetsCursor ==
    [][ (\E key \in FilterKeys : KeyNormal(key))
            => /\ input_mode' = "Editing"
               /\ process_state' = Some(0)
               /\ search_query' = search_query ]_vars

\* C4 witness: Editing mode (entered only by the filter key) with a non-empty
\* query over a view of several rows, before the next tick.
Wit_C4 ==
    /\ pc = "tick"
    /\ input_mode = "Editing"
    /\ process_state = Some(0)
    /\ search_query # <<>>
    /\ Len(processes) > 1

\* C5: each of the four history series has exactly HISTORY_LEN entries in every
\* reachable state.
Thm_C5_HistoryLength ==
    /\ Len(cpu_history) = HISTORY_LEN
    /\ Len(mem_history) = HISTORY_LEN
    /\ Len(net_rx_history) = HISTORY_LEN
    /\ Len(net_tx_history) = HISTORY_LEN

\* C5 witness: the series after the last tick of a run, key events in between.
Wit_C5 ==
    /\ ticks = MaxTicks
    /\ search_query # <<>>
    /\ Len(cpu_history) = HISTORY_LEN
    /\ cpu_history[HISTORY_LEN] # 0

\* new is old shifted by one place towards the front, with v at the back
Shifted(old, new, v) ==
    /\ Len(new) = Len(old)
    /\ \A i \in 1..(Len(old) - 1) : new[i] = old[i + 1]
    /\ new[Len(new)] = v

\* the entries of h before the last n are zero
ZeroPrefix(h, n) == \A i \in 1..(Len(h) - n) : h[i] = 0

\* C6: a tick shifts each history series as a FIFO, [s1, .., sC] becoming
\* [s2, .., sC, v] for the tick's sample v; the back of the series (the value the
\* gauges show) is the most recent sample, and after n < C ticks the first C - n
\* entries are still the initial zeroes. The memory sample of 2 units in use
\* out of 8 is 25, that of 29 out of 100 is 28 (the f64 product is just below 29).
Thm_C6_HistoryFifo ==
    [][ ticks' = ticks + 1 =>
          LET cpu == CpuUsageAsU64(system'.cpu)
              mem == MemPercent(system'.used_memory, system'.total_memory)
              rx == TotalRx(system'.networks)
              tx == TotalTx(system'.networks)
          IN  /\ Shifted(cpu_history, cpu_history', cpu)
              /\ Shifted(mem_history, mem_history', mem)
              /\ Shifted(net_rx_history, net_rx_history', rx)
              /\ Shifted(net_tx_history, net_tx_history', tx)
              /\ Latest(cpu_history') = cpu
              /\ Latest(mem_history') = mem
              /\ system' = SnapA => mem = 25
              /\ system' = SnapC => mem = 28
              /\ ZeroPrefix(cpu_history', ticks')
              /\ ZeroPrefix(mem_history', ticks')
              /\ ZeroPrefix(net_rx_history', ticks')
              /\ ZeroPrefix(net_tx_history', ticks') ]_vars

\* C6 witness: the scenario of the spec at capacity HISTORY_LEN: zeroes, then the
\* samples 10 and 20 of two ticks at the back; the memory samples are 25 and 28.
Wit_C6 ==
    /\ ticks = 2
    /\ cpu_history[HISTORY_LEN - 2] = 0
    /\ cpu_history[HISTORY_LEN - 1] = 10
    /\ cpu_history[HISTORY_LEN] = 20
    /\ mem_history[HISTORY_LEN - 1] = 25
    /\ mem_history[HISTORY_LEN] = 28

\* the rows of a view are rows of the table, each pid at most once, in
\* non-increasing order of cpu
SortedRowsOf(view, table) ==
    /\ \A i \in 1..Len(view) : \E j \in 1..Len(table) : view[i] = table[j]
    /\ \A i, j \in 1..Len(view) : i # j => view[i].pid # view[j].pid
    /\ \A i \in 1..(Len(view) - 1) : view[i].cpu >= view[i + 1].cpu

InView(view, p) == \E i \in 1..Len(view) : view[i].pid = p.pid

\* C7: after a tick executed with an empty query the view has
\* min(TOP_K, number of processes) rows of the snapshot, without duplicates, in
\* non-increasing order of cpu, and no process left out has more cpu than a
\* process included.
Thm_C7_TopKByCpu ==
    [][ (ticks' = ticks + 1 /\ search_query = <<>>) =>
          LET view == processes'
              table == system'.procs
          IN  /\ Len(view) = Min(TOP_K, Len(table))
              /\ SortedRowsOf(view, table)
              /\ \A j \in 1..Len(table) :
                    ~InView(view, table[j]) =>
                        \A i \in 1..Len(view) : table[j].cpu <= view[i].cpu ]_vars

\* C7 witness: a table larger than the cap has been cut to TOP_K rows.
Wit_C7 ==
    /\ ticks > 0
    /\ search_query = <<>>
    /\ Len(system.procs) > TOP_K
    /\ Len(processes) = TOP_K

\* the same character, or the capital and the lower-case form of one letter
SameLetter(a, b) ==
    a = b \/ \E i \in 1..Len(UpperCase) : {a, b} = {UpperCase[i], LowerCase[i]}

\* q occurs in name as a substring, letter case ignored
CaseInsensitiveSubstring(name, q) ==
    \E k \in 0..(Len(name) - Len(q)) :
        \A j \in 1..Len(q) : SameLetter(name[k + j], q[j])

\* C8: after a tick executed with a non-empty query q the view holds exactly the
\* processes of the snapshot whose name contains q, letter case ignored (all of
\* them, however many, and no other), in non-increasing order of cpu; the table
\* {1:"a" 5, 2:"b" 50, 3:"ab" 10} with q = "a" gives the pids [3, 1].
Claim_C8_FilteredView ==
    [][ (ticks' = ticks + 1 /\ search_query # <<>>) =>
          LET view == processes'
              table == system'.procs
          IN  /\ SortedRowsOf(view, table)
              /\ \A j \in 1..Len(table) :
                    InView(view, table[j])
                        <=> CaseInsensitiveSubstring(table[j].name, search_query)
              /\ (system' = SnapA /\ search_query = <<"a">>)
                    => [i \in 1..Len(view) |-> view[i].pid] = <<3, 1>> ]_vars

RECURSIVE IterateNext(_, _, _)
\* NextIndex applied k times
IterateNext(k, sel, n) ==
    IF k = 0 THEN sel ELSE IterateNext(k - 1, Some(NextIndex(sel, n)), n)

\* C9: over a non-empty view of length n and an index i of it, next moves the
\* selection to (i + 1) mod n and previous to (i - 1) mod n, so that n times next
\* is the identity and previous is the inverse of next; over an empty view both
\* leave the selection as it is.
Thm_C9_CyclicNavigation ==
    [][ LET n == Len(processes)
            inside == IsSome(process_state) /\ Unwrap(process_state) < n
        IN  /\ (\E key \in NextKeys : KeyNormal(key)) =>
                  /\ n = 0 => process_state' = process_state
                  /\ inside => process_state' = Some((Unwrap(process_state) + 1) % n)
            /\ (\E key \in PreviousKeys : KeyNormal(key)) =>
                  /\ n = 0 => process_state' = process_state
                  /\ inside => process_state' = Some((Unwrap(process_state) + n - 1) % n)
            /\ \A i \in 0..(n - 1) :
                  /\ IterateNext(n, Some(i), n) = Some(i)
                  /\ PreviousIndex(Some(NextIndex(Some(i), n)), n) = i
                  /\ NextIndex(Some(PreviousIndex(Some(i), n)), n) = i ]_vars

\* C9 witness: the last row of a view of three rows is selected, which only next
\* (twice from the top) or previous (wrapping from the top) brings about.
Wit_C9 ==
    /\ pc = "tick"
    /\ input_mode = "Normal"
    /\ Len(processes) = 3
    /\ process_state = Some(2)

\* C10, as claimed: the confirm key in Normal mode always leads to Details with
\* selected_pid the pid at the selected position of the view.
Claim_C10_InspectAlways ==
    [][ (\E key \in InspectKeys : KeyNormal(key)) =>
          /\ input_mode' = "Details"
          /\ IsSome(process_state)
          /\ Unwrap(process_state) < Len(processes)
          /\ selected_pid' = Some(processes[Unwrap(process_state) + 1].pid) ]_vars

\* C10, amended: the confirm key in Normal mode leads to Details with
\* selected_pid the pid at the selected position when the view has a row at that
\* position; when it has none (empty view, selection absent or past the end) the
\* key leaves the mode Normal and selected_pid absent.
Thm_C10_InspectRowAtCursor ==
    [][ (\E key \in InspectKeys : KeyNormal(key)) =>
          IF IsSome(process_state) /\ Unwrap(process_state) < Len(processes)
          THEN /\ input_mode' = "Details"
               /\ selected_pid' = Some(processes[Unwrap(process_state) + 1].pid)
          ELSE /\ input_mode' = "Normal"
               /\ selected_pid' = None ]_vars

\* C10 witness: Details entered on a row other than the first, after the view was
\* rebuilt by the last tick of the run.
Wit_C10 ==
    /\ pc = "tick"
    /\ ticks = MaxTicks
    /\ input_mode = "Details"
    /\ IsSome(process_state)
    /\ Unwrap(process_state) > 0
    /\ Unwrap(process_state) < Len(processes)
    /\ selected_pid = Some(processes[Unwrap(process_state) + 1].pid)

\* what holds of input_mode and selected_pid in every state
ModeOwnsInspectedPid ==
    /\ input_mode \in {"Normal", "Editing", "Details"}
    /\ IsSome(selected_pid) <=> input_mode = "Details"

\* C11: in every reachable state the input mode is one of Normal, Editing and
\* Details, and selected_pid is present exactly when the mode is Details: a step
\* that enters Details starts in Normal and stores the pid of the row at the
\* cursor, and each of Esc, Enter and Backspace pressed in Details returns to
\* Normal and clears selected_pid.
Thm_C11_InspectedPidIffDetails ==
    /\ []ModeOwnsInspectedPid
    /\ [][/\ \A key \in {Esc, Enter, Backspace} :
                KeyDetails(key) => input_mode' = "Normal" /\ selected_pid' = None
          /\ (input_mode # "Details" /\ input_mode' = "Details") =>
                /\ input_mode = "Normal"
                /\ IsSome(SelectedEntry(process_state, processes))
                /\ selected_pid' = Some(Unwrap(SelectedEntry(process_state, processes)).pid)
          /\ (input_mode = "Details" /\ input_mode' # "Details") =>
                input_mode' = "Normal" /\ selected_pid' = None]_vars

\* Details has been entered on the second row of a view, and the tick check of
\* that iteration is next
Wit_C11 ==
    /\ pc = "tick"
    /\ event = "press"
    /\ input_mode = "Details"
    /\ process_state = Some(1)
    /\ Len(processes) > 1
    /\ selected_pid = Some(processes[2].pid)
    /\ ~popup

\* the keys the Editing arm lists, and the keys the Details arm lists
EditingKeys == {Enter, Esc, Backspace} \cup {Char(c) : c \in KeyChars}
DetailsKeys == {Esc, Enter, Backspace}

\* the keys the model presses that the arm of the mode does not list
UnlistedInEditing == KeyCodes \ EditingKeys
UnlistedInDetails == KeyCodes \ DetailsKeys

\* C12: the quit flag, the selection (outside rendering), process.kill(), the
\* entry into Details and the theme change only in a step taken in Normal mode;
\* a key the Editing arm does not list pressed in Editing, and a key the Details
\* arm does not list pressed in Details, leave every field of App unchanged and
\* kill nothing; the characters q and x typed in Editing are appended to the
\* query, the mode stays Editing, the quit flag is unchanged and nothing is
\* killed.
Thm_C12_KeyRoutingByMode ==
    [][/\ should_quit' # should_quit => pc = "poll" /\ input_mode = "Normal"
       /\ (pc = "poll" /\ process_state' # process_state) => input_mode = "Normal"
       /\ (pc = "poll" /\ pc' = "tick" /\ IsSome(kill_request')) => input_mode = "Normal"
       /\ (selected_pid' # selected_pid /\ IsSome(selected_pid')) =>
             pc = "poll" /\ input_mode = "Normal"
       /\ current_theme' # current_theme => pc = "poll" /\ input_mode = "Normal"
       /\ (pc = "poll" /\ input_mode = "Editing") =>
             /\ \A key \in UnlistedInEditing :
                   KeyEditing(key) => UNCHANGED app_vars /\ kill_request' = None
             /\ \A c \in {"q", "x"} :
                   KeyEditing(Char(c)) =>
                      /\ search_query' = Append(search_query, c)
                      /\ input_mode' = "Editing"
                      /\ kill_request' = None
                      /\ UNCHANGED <<should_quit, process_state, processes,
                                     selected_pid, current_theme>>
       /\ (pc = "poll" /\ input_mode = "Details") =>
             \A key \in UnlistedInDetails :
                KeyDetails(key) => UNCHANGED app_vars /\ kill_request' = None]_vars

\* the quit character has been typed into the query over a view with rows, and
\* the program has not quit
Wit_C12 ==
    /\ pc = "tick"
    /\ event = "press"
    /\ input_mode = "Editing"
    /\ search_query = <<"q">>
    /\ processes # <<>>
    /\ ~should_quit

\* the selection points at a row of the view
CursorOnRow == IsSome(process_state) /\ Unwrap(process_state) < Len(processes)

\* C13: a kill key pressed in Normal mode calls process.kill() on the pid of the
\* row at the selection when there is such a row and the provider knows the pid,
\* and on nothing otherwise (no selection, empty view, selection past the last
\* row, pid unknown); the step leaves the mode Normal, every field of App
\* unchanged and main's result as it was; and nothing but a kill key pressed in
\* Normal mode kills.
Thm_C13_KillKey ==
    [][/\ \A key \in KillKeys :
             KeyNormal(key) =>
                /\ kill_request' =
                      IF CursorOnRow
                         /\ SystemHasProcess(system, processes[Unwrap(process_state) + 1].pid)
                      THEN Some(processes[Unwrap(process_state) + 1].pid)
                      ELSE None
                /\ input_mode' = "Normal"
                /\ UNCHANGED <<app_vars, term_vars>>
       /\ (pc = "poll" /\ pc' = "tick" /\ IsSome(kill_request')) =>
             \E key \in KillKeys : KeyNormal(key)]_vars

\* the kill key has been pressed with the selection on the second row
Wit_C13 ==
    /\ pc = "tick"
    /\ event = "press"
    /\ input_mode = "Normal"
    /\ process_state = Some(1)
    /\ Len(processes) > 1
    /\ kill_request = Some(processes[2].pid)

\* the kill key can be pressed with the selection past the last row of a view
Wit_C13_NoRow ==
    /\ pc = "poll"
    /\ input_mode = "Normal"
    /\ processes # <<>>
    /\ IsSome(process_state)
    /\ ~CursorOnRow

\* how far main is on its way from the key dispatch to its return; 0 at the
\* draw and the poll of the loop and before the loop
QuitRank ==
    CASE pc = "tick" -> 1
      [] pc = "quit" -> 2
      [] pc = "teardown" -> 3
      [] pc = "leave_alt" -> 4
      [] pc = "show_cursor" -> 5
      [] pc = "done" -> 6
      [] OTHER -> 0

\* the calls of the teardown that can fail
TeardownCalls == {"disable_raw_mode", "LeaveAlternateScreen", "show_cursor"}

\* C14: a quit key pressed in Normal mode sets should_quit and no step clears
\* it; once it is set main is never again at the draw or the poll of the loop,
\* every step takes main further towards its return (so that it returns after
\* at most five more steps) and a step is always possible until it has
\* returned; it returns Ok(()) with raw mode off and the alternate screen left,
\* or the error of a teardown call that failed.
Thm_C14_QuitTerminates ==
    /\ [](should_quit => QuitRank > 0)
    /\ []((should_quit /\ pc # "done" /\ ticks < MaxTicks) => ENABLED <<Next>>_vars)
    /\ []((should_quit /\ pc = "done") =>
             \/ result = <<"Ok">> /\ ~raw_mode /\ ~alt_screen
             \/ \E call \in TeardownCalls : result = <<"Err", call>>)
    /\ [][/\ \A key \in QuitKeys : KeyNormal(key) => should_quit'
          /\ should_quit => should_quit'
          /\ should_quit => QuitRank' > QuitRank]_vars

\* main has returned Ok(()) after a quit key, with the terminal restored
Wit_C14 ==
    /\ pc = "done"
    /\ should_quit
    /\ result = <<"Ok">>
    /\ ~raw_mode
    /\ ~alt_screen
    /\ ticks > 0

\* C15: over a non-empty view, a single next_process or previous_process leaves
\* the selection on a row of the view, whatever the selection was before the
\* key, a selection past the last row of a shrunken view included.
Claim_C15_SingleStepInRange ==
    [][\A key \in NextKeys \cup PreviousKeys :
          (KeyNormal(key) /\ processes # <<>>) =>
             /\ IsSome(process_state')
             /\ Unwrap(process_state') < Len(processes)]_vars

\* C16: a tick that rebuilds the view from empty to non-empty leaves the
\* selection at index 0, whatever index was selected before the view became
\* empty (stated for a selection that is present when the tick starts).
Claim_C16_CursorZeroOnRefill ==
    [][(/\ ticks' = ticks + 1
        /\ processes = <<>>
        /\ processes' # <<>>
        /\ IsSome(process_state)) => process_state' = Some(0)]_vars

\* C17: the poll timeout is max(0, TICK_RATE - elapsed), so a poll that times
\* out neither takes time back nor returns before the tick is due; every poll
\* outcome that does not end main is followed by the tick check; a tick check
\* with elapsed >= TICK_RATE runs on_tick once and resets the elapsed time to 0
\* whatever it was (two tick intervals or more included), a tick check with
\* elapsed < TICK_RATE runs nothing; on_tick runs nowhere else, and a due tick
\* check can always take its step.
Thm_C17_TickTiming ==
    /\ []((pc = "tick" /\ elapsed >= TICK_RATE /\ ticks < MaxTicks) =>
             ENABLED <<Next>>_vars)
    /\ [][/\ PollTimeout =>
                /\ elapsed' = After(elapsed, IF elapsed < TICK_RATE
                                             THEN TICK_RATE - elapsed ELSE 0)
                /\ elapsed' >= elapsed
                /\ elapsed' >= TICK_RATE
          /\ (pc = "poll" /\ pc' # "done") => pc' = "tick" /\ elapsed' >= elapsed
          /\ (pc = "tick" /\ elapsed >= TICK_RATE) =>
                ticks' = ticks + 1 /\ elapsed' = 0 /\ pc' = "quit"
          /\ (pc = "tick" /\ elapsed < TICK_RATE) =>
                ticks' = ticks /\ pc' = "quit" /\ UNCHANGED <<app_vars, elapsed>>
          /\ ticks' # ticks => pc = "tick" /\ ticks' = ticks + 1
          /\ tick_vars' # tick_vars => ticks' = ticks + 1]_vars

\* a key event has been handled (a kill) and the tick of the same iteration has
\* run after it: the provider no longer knows the killed pid
Wit_C17 ==
    /\ pc = "quit"
    /\ elapsed = 0
    /\ IsSome(kill_request)
    /\ ~SystemHasProcess(system, Unwrap(kill_request))

\* a tick check with two tick intervals or more elapsed
Wit_C17_Overrun == pc = "tick" /\ elapsed >= 2 * TICK_RATE /\ ticks > 0

\* a poll with a timeout strictly between 0 and the tick interval
Wit_C17_PartialTimeout == pc = "poll" /\ elapsed > 0 /\ elapsed < TICK_RATE

\* a poll with more than the tick interval elapsed: the timeout is 0
Wit_C17_Saturated == pc = "poll" /\ elapsed > TICK_RATE

\* Details mode with a selected_pid the provider's process table does not hold
InspectedPidGone ==
    /\ input_mode = "Details"
    /\ IsSome(selected_pid)
    /\ \A i \in 1..Len(system.procs) : system.procs[i].pid # Unwrap(selected_pid)

\* C18: in Details mode with a selected_pid that the provider no longer knows,
\* the frame can be drawn without error and every frame drawn has no popup (in
\* Details mode with a pid the provider knows it has one); a tick leaves the
\* mode and selected_pid as they were; and Esc, Enter and Backspace can be
\* pressed and return to Normal with selected_pid cleared.
Thm_C18_PopupDegrades ==
    /\ []((pc = "draw" /\ InspectedPidGone) => ENABLED (Draw /\ pc' = "poll"))
    /\ []((pc = "poll" /\ InspectedPidGone) =>
             \A key \in DetailsKeys : ENABLED KeyDetails(key))
    /\ [][/\ (pc = "draw" /\ pc' = "poll" /\ InspectedPidGone) =>
                ~popup' /\ UNCHANGED <<input_mode, selected_pid, result>>
          /\ (pc = "draw" /\ pc' = "poll" /\ input_mode = "Details" /\ ~InspectedPidGone) =>
                popup'
          /\ (ticks' = ticks + 1 /\ input_mode = "Details") =>
                UNCHANGED <<input_mode, selected_pid>>
          /\ \A key \in DetailsKeys :
                (KeyDetails(key) /\ InspectedPidGone) =>
                   input_mode' = "Normal" /\ selected_pid' = None]_vars

\* a frame has been drawn without popup and without error in Details mode, the
\* inspected process having left the process table at a tick
Wit_C18 ==
    /\ pc = "poll"
    /\ result = <<"running">>
    /\ InspectedPidGone
    /\ ~popup
    /\ ticks >= 2

\* C19: an event that is not a key press (a key release, a key repeat, an event
\* that is no key event) can be read in every mode (stated for a resize and for
\* the release of the quit key), and the step that reads such an event
\* leaves every field of App unchanged (mode, query, selection, selected_pid,
\* theme, quit flag and view included), kills nothing and leaves main's result
\* as it was.
Thm_C19_OnlyPressActs ==
    /\ [](pc = "poll" =>
             \A ev \in {<<"Resize">>, <<"Key", "Release", Char("q")>>} :
                ENABLED IgnoredEvent(ev))
    /\ [][/\ \A ev \in IgnoredEvents :
                IgnoredEvent(ev) => event' = "ignored"
          /\ event' = "ignored" =>
                /\ pc = "poll"
                /\ kill_request' = None
                /\ UNCHANGED <<app_vars, term_vars>>]_vars

\* an event that is no key press has been read in Details mode
Wit_C19 ==
    /\ pc = "tick"
    /\ event = "ignored"
    /\ input_mode = "Details"
    /\ IsSome(selected_pid)
    /\ process_state = Some(1)

\* an event that is no key press has been read in Editing mode
Wit_C19_Editing ==
    /\ pc = "tick"
    /\ event = "ignored"
    /\ input_mode = "Editing"
    /\ search_query # <<>>

\* C20: a step that runs on_tick leaves the selection, the input mode, the
\* query, selected_pid, the theme and the quit flag as they were; it writes the
\* provider state, the four histories and the view only. The selection keeps
\* its index, whatever row (if any) the new view has at that index.
Thm_C20_TickFrame ==
    [][ticks' = ticks + 1 =>
          /\ UNCHANGED <<process_state, input_mode, search_query, selected_pid,
                         current_theme, should_quit>>
          /\ UNCHANGED <<term_vars, kill_request, popup>>]_vars

\* a tick has run in the iteration of a kill at the second row: the killed pid
\* has left the process table, and the selection is still on index 1, where the
\* new view has no row or the row of another pid
Wit_C20 ==
    /\ pc = "quit"
    /\ IsSome(kill_request)
    /\ ~SystemHasProcess(system, Unwrap(kill_request))
    /\ process_state = Some(1)
    /\ (Len(processes) < 2 \/ processes[2].pid # Unwrap(kill_request))
    /\ input_mode = "Normal"

\* the four history series and the view
view_vars == <<cpu_history, mem_history, net_rx_history, net_tx_history, processes>>

\* C21: the view and the four histories change only in a step that runs
\* on_tick: no key press in any mode and no other step changes them; a
\* character typed into the query, a Backspace and an Enter or Esc pressed in
\* Editing leave the view as it is; the tick builds the view from the
\* provider's processes and the query of that moment, so between ticks the view
\* is the one of some query typed so far and not necessarily of the query as
\* it is now.
Thm_C21_ViewOnlyByTick ==
    /\ [](ticks > 0 =>
             \E q \in Strings(EditChars, MaxQueryLen) :
                processes = ProcessCache(system.procs, q))
    /\ [][/\ view_vars' # view_vars => pc = "tick" /\ ticks' = ticks + 1
          /\ event' = "press" => UNCHANGED <<view_vars, system>>
          /\ (pc = "poll" /\ input_mode = "Editing") =>
                \A key \in EditingKeys :
                   KeyEditing(key) => UNCHANGED <<view_vars, system>>
          /\ ticks' = ticks + 1 =>
                processes' = ProcessCache(system'.procs, search_query)]_vars

\* a character has been typed into the query after a tick: the view still has
\* the three rows of the empty query, one of which the new query does not match
Wit_C21 ==
    /\ pc = "tick"
    /\ event = "press"
    /\ input_mode = "Editing"
    /\ search_query = <<"a">>
    /\ Len(processes) = 3
    /\ processes # ProcessCache(system.procs, search_query)

\* the stale view is still there after Editing has been left
Wit_C21_Left ==
    /\ pc = "tick"
    /\ event = "press"
    /\ input_mode = "Normal"
    /\ search_query = <<"a">>
    /\ Len(processes) = 3

====
